---- MODULE Spec2Model ----
(***************************************************************************)
(* The fiber reconciler of vertex.js (section 2 of the source): scheduler, *)
(* per-fiber work, keyed/unkeyed reconciliation, commit and the hooks.     *)
(* Fibers, reducer cells and output nodes live in heaps indexed by         *)
(* positive integers; Null (0) is the null reference.                      *)
(***************************************************************************)
EXTENDS Integers, Sequences, FiniteSets, TLC

VARIABLES
    fibers,          \* heap of fiber records, indexed by fiber id
    cells,           \* heap of reducer cells {queue, dispatch}
    nextUnit,        \* next fiber unit of work
    wipRoot,         \* work-in-progress root
    curRoot,         \* last committed root
    deletions,       \* fibers to delete in next commit
    wipFiber,        \* currently rendering function fiber
    hookIdx,         \* hook cursor for current fiber
    pendingEffects,  \* effects deferred until after commit
    scheduled,       \* dedup flag of scheduleWork
    callbacks,       \* number of idle callbacks handed to ric and not yet fired
    domKids,         \* output tree: child list of every output node
    domCls,          \* className of every output node
    refs,            \* heap of reference boxes {current}
    maps,            \* heap of contextMap objects, shared by the fibers that
                     \* hold a reference to them
    lazy,            \* the closure of the lazy wrapper: status, thenable, and the
                     \* number of calls of its factory
    log,             \* effect bodies and cleanups run so far, in order
    trace,           \* fibers performUnit has run on in the pass in flight, in order
    ops,             \* output-node operations since the start of the last commit
    throws,          \* values thrown out of the work loop so far, in order
    hist,            \* history per reducer cell: actions dispatched, values rendered
    universe,        \* what the host does: [descs: the descriptions it passes to
                     \* render(), actions: the actions it dispatches]
    nRender,         \* calls of render() so far
    nTrigger         \* calls of render() and of dispatch handles so far

vars == <<fibers, cells, nextUnit, wipRoot, curRoot, deletions, wipFiber, hookIdx,
          pendingEffects, scheduled, callbacks, domKids, domCls, refs, maps, lazy,
          log, trace, ops, throws, hist, universe, nRender, nTrigger>>

\* ---------------------------------------------------------------- bounds

MaxRender == 2
MaxTrigger == 4
MaxBudget == 3

\* ------------------------------------------------------------- constants

Null == 0
Container == 1

PLACEMENT == "P"
UPDATE == "U"
DELETION == "D"
NoTag == "-"
NoKey == "~"

\* ------------------------------------------------------- tree descriptions

\* createElement(type, props, ...children): a description {type, props}.  The
\* props the components of the model read are spelled out as fields.
createElement(type, key, cls, kids) ==
    [type |-> type, key |-> key, cls |-> cls, hasDeps |-> FALSE, deps |-> <<>>,
     cl |-> FALSE, value |-> 0, ref |-> Null, children |-> kids]

\* createElement(type, {ref: box}, ...): the description el with a reference
\* box as its ref prop.
WithRef(el, box) == [el EXCEPT !.ref = box]

\* A description of the function component Comp (see CallComponent).
CompEl(key, hasDeps, deps, cl, kids) ==
    [type |-> "Comp", key |-> key, cls |-> "", hasDeps |-> hasDeps, deps |-> deps,
     cl |-> cl, value |-> 0, ref |-> Null, children |-> kids]

\* A description of a function component that reads props.value.
ValueEl(type, value, kids) ==
    [type |-> type, key |-> NoKey, cls |-> "", hasDeps |-> FALSE, deps |-> <<>>,
     cl |-> FALSE, value |-> value, ref |-> Null, children |-> kids]

\* createElement(type, props) with no child arguments, as LazyWrapper calls it:
\* Object.assign({}, props, {children: children}) with children = [].
createElementOfProps(type, props) ==
    [props EXCEPT !.type = type, !.children = <<>>]

\* A null child, as a component may return it.
NullEl == createElement("null", NoKey, "", <<>>)

\* The function components of the model (see CallComponent); every other type
\* is the tag name of a host element.
Components ==
    {"Comp", "Fragment", "RefComp", "ProviderA", "ProviderB", "ReaderA", "ReaderB",
     "Lazy", "Boom", "MemoComp", "CallInRender", "CallInEffect", "CallInCleanup"}

IsFunction(type) == type \in Components

\* ---------------------------------------------------------------- contexts

\* The contexts created by createContext, named by their _id.
CtxIds == {"A", "B"}

\* ctx._defaultValue
DefaultValue(id) == IF id = "A" THEN 10 ELSE 20

\* A contextMap is an object from context ids to values; an id that is not a
\* key of the object has no entry.  NoMap is what null and {} hold: no entries.
\* A fiber holds a reference to a contextMap object of the heap, or Null.
NoEntry == [has |-> FALSE, v |-> 0]
Entry(value) == [has |-> TRUE, v |-> value]
NoMap == [id \in CtxIds |-> NoEntry]

\* Object.assign({}, under, over)
AssignUnder(under, over) == [id \in CtxIds |-> IF under[id].has THEN under[id] ELSE over[id]]

Assign(under, over) == [id \in CtxIds |-> IF over[id].has THEN over[id] ELSE under[id]]

\* The context a Provider or a reading component is of.
CtxOf(type) == IF type \in {"ProviderA", "ReaderA"} THEN "A" ELSE "B"

\* ------------------------------------------------------------ lazy wrapper

\* var Page = lazy(factory): lazy calls factory() once and keeps status,
\* Component and thenable in its closure.  The thenable is named by the call
\* of the factory that made it.
LazyClosure == [status |-> "pending", thenable |-> 1, calls |-> 1]

\* ------------------------------------------------------------- the machine

\* The one element of a one-element set.  {e(x) : x \in {v}} with Only gives
\* the value of e for the value of v, with v computed once.
Only(S) == CHOOSE v \in S : TRUE

\* No exception, a thrown thenable (named by the factory call that made it)
\* and a thrown Error.
NoThrow == [kind |-> "none", id |-> 0]
Thenable(id) == [kind |-> "thenable", id |-> id]
ErrorValue == [kind |-> "error", id |-> 0]

\* The whole mutable state as one record, so that the functions of the source
\* become operators from machine to machine.  thrown is the value of an
\* exception on its way up the call stack.
Cur ==
    [fibers |-> fibers, cells |-> cells, nextUnit |-> nextUnit, wipRoot |-> wipRoot,
     curRoot |-> curRoot, deletions |-> deletions, wipFiber |-> wipFiber,
     hookIdx |-> hookIdx, pendingEffects |-> pendingEffects, scheduled |-> scheduled,
     callbacks |-> callbacks, domKids |-> domKids, domCls |-> domCls, log |-> log,
     hist |-> hist, refs |-> refs, maps |-> maps, lazy |-> lazy, trace |-> trace, ops |-> ops,
     throws |-> throws, thrown |-> NoThrow]

Install(m) ==
    /\ fibers' = m.fibers
    /\ cells' = m.cells
    /\ nextUnit' = m.nextUnit
    /\ wipRoot' = m.wipRoot
    /\ curRoot' = m.curRoot
    /\ deletions' = m.deletions
    /\ wipFiber' = m.wipFiber
    /\ hookIdx' = m.hookIdx
    /\ pendingEffects' = m.pendingEffects
    /\ scheduled' = m.scheduled
    /\ callbacks' = m.callbacks
    /\ domKids' = m.domKids
    /\ domCls' = m.domCls
    /\ log' = m.log
    /\ hist' = m.hist
    /\ refs' = m.refs
    /\ maps' = m.maps
    /\ lazy' = m.lazy
    /\ trace' = m.trace
    /\ ops' = m.ops
    /\ throws' = m.throws

\* A fiber object literal.  child and sibling start undefined; worked records
\* that performUnit has run on the fiber (its child chain is then complete);
\* seen records the value the fiber's component read from its context or from
\* its reference box.
Fiber(type, props, dom, parent, alternate, effectTag) ==
    [type |-> type, props |-> props, dom |-> dom, parent |-> parent,
     child |-> Null, sibling |-> Null, alternate |-> alternate,
     effectTag |-> effectTag, hooks |-> <<>>, pend |-> <<>>, worked |-> FALSE,
     contextMap |-> Null, ctxProvide |-> NoMap, seen |-> 0]

\* The root fiber {dom, props: {children: [element]}, alternate}: no type.
RootProps(element) == createElement("root", NoKey, "", <<element>>)

\* ------------------------------------------------------------- scheduler

scheduleWorkTwice(m0) ==
    Only({[m EXCEPT !.scheduled = TRUE, !.callbacks = @ + 1] : m \in {m0}})

scheduleWork(m0) ==
    Only({IF m.scheduled THEN m
          ELSE [m EXCEPT !.scheduled = TRUE, !.callbacks = @ + 1] : m \in {m0}})

\* ------------------------------------------------------------ output nodes

RemoveNode(kids, n) == SelectSeq(kids, LAMBDA x : x # n)

\* The record of one operation on an output node, with the cursor at the time.
Op(m, op, node) == [op |-> op, node |-> node, next |-> m.nextUnit]

\* parentDom.appendChild(dom): the node leaves its present parent, if it has
\* one, and becomes the last child of parentDom.
appendChild(m0, parentDom, dom) ==
    Only({[m EXCEPT !.domKids =
              [p \in DOMAIN m.domKids |->
                  IF p = parentDom THEN Append(RemoveNode(m.domKids[p], dom), dom)
                  ELSE RemoveNode(m.domKids[p], dom)],
                    !.ops = Append(@, Op(m, "append", dom))] : m \in {m0}})

\* parentDom.removeChild(dom)
removeChild(m, parentDom, dom) ==
    [m EXCEPT !.domKids[parentDom] = RemoveNode(@, dom),
              !.ops = Append(@, Op(m, "remove", dom))]

\* patchDom(dom, prev, next) for the className prop ("" is an absent prop).
patchDom(m0, dom, prevCls, nextCls) ==
    Only({LET pass1 == IF prevCls # "" /\ nextCls = "" THEN "" ELSE m.domCls[dom]
              pass2 == IF nextCls # "" /\ prevCls # nextCls THEN nextCls ELSE pass1
          IN  [m EXCEPT !.domCls[dom] = pass2,
                        !.ops = Append(@, Op(m, "patch", dom))] : m \in {m0}})

\* fiber.props.ref.current = fiber.dom, when the fiber's props hold a box.
wireRef(m0, f) ==
    Only({IF m.fibers[f].props.ref # Null
          THEN [m EXCEPT !.refs[m.fibers[f].props.ref] = m.fibers[f].dom]
          ELSE m : m \in {m0}})

\* createDom(fiber): a fresh detached node, patched from no props, and wired
\* to the fiber's reference box at once.
createDom(m0, f) ==
    Only({wireRef(patchDom([m EXCEPT !.domKids = Append(@, <<>>), !.domCls = Append(@, ""),
                                     !.fibers[f].dom = Len(m.domKids) + 1],
                           Len(m.domKids) + 1, "", m.fibers[f].props.cls), f) :
          m \in {m0}})

\* ---------------------------------------------------------- reconciliation

\* The sibling chain starting at fiber o, as a sequence of fiber ids.
RECURSIVE Chain(_, _)
Chain(fs, o) ==
    IF o = Null THEN <<>> ELSE <<o>> \o Chain(fs, fs[o].sibling)

\* keyMap[String(sk)] = scan: an object used as a map keeps its keys in
\* insertion order, and a second write to a key replaces the value in place.
KeyPut(keyMap, k, f) ==
    IF \E j \in 1..Len(keyMap) : keyMap[j].k = k
    THEN [j \in 1..Len(keyMap) |->
            IF keyMap[j].k = k THEN [k |-> k, f |-> f] ELSE keyMap[j]]
    ELSE Append(keyMap, [k |-> k, f |-> f])

KeyGet(keyMap, k) ==
    IF \E j \in 1..Len(keyMap) : keyMap[j].k = k
    THEN (CHOOSE e \in {keyMap[j] : j \in 1..Len(keyMap)} : e.k = k).f
    ELSE Null

KeyDelete(keyMap, k) == SelectSeq(keyMap, LAMBDA e : e.k # k)

\* The first loop of reconcileChildren: old children with a key go to keyMap,
\* the others to byPos.
RECURSIVE BuildLookup(_, _, _, _)
BuildLookup(fs, olds, i, acc0) ==
    Only({IF i > Len(olds) THEN acc
          ELSE LET scan == olds[i]
                   sk == fs[scan].props.key
               IN  BuildLookup(fs, olds, i + 1,
                       IF sk # NoKey
                       THEN [acc EXCEPT !.keyMap = KeyPut(@, sk, scan)]
                       ELSE [acc EXCEPT !.byPos = Append(@, scan)]) : acc \in {acc0}})

MarkDeletionOfLatest(m, old) ==
    [m EXCEPT !.fibers[Len(m.fibers)].effectTag = DELETION,
              !.deletions = Append(@, Len(m.fibers))]

\* old.effectTag = DELETION; deletions.push(old)
MarkDeletion(m, old) ==
    [m EXCEPT !.fibers[old].effectTag = DELETION, !.deletions = Append(@, old)]

RECURSIVE MarkDeletions(_, _, _)
MarkDeletions(m0, olds, i) ==
    Only({IF i > Len(olds) THEN m
          ELSE MarkDeletions(MarkDeletion(m, olds[i]), olds, i + 1) : m \in {m0}})

SameTypeAlways(fs, old, el) == old # Null

\* sameType: a previous fiber was found and its type is the element's type.
SameType(fs, old, el) == old # Null /\ fs[old].type = el.type

\* The previous fiber an element with a key is paired with.
KeyedOldNone(keyMap, elKey) == Null

KeyedOld(keyMap, elKey) == KeyGet(keyMap, elKey)

PositionalOldAgain(byPos, posIdx) == IF Len(byPos) > 0 THEN byPos[1] ELSE Null

\* byPos[posIdx++] || null: the previous fiber an element without a key is
\* paired with.
PositionalOld(byPos, posIdx) == IF posIdx < Len(byPos) THEN byPos[posIdx + 1] ELSE Null

\* One iteration of the main loop of reconcileChildren, for elements[i].
\* st = [m, keyMap, posIdx, prev]
ReconcileStep(st, fiber, byPos, el, i) ==
    LET m == st.m
        fs == m.fibers
        keyed == el.key # NoKey
        old == IF keyed THEN KeyedOld(st.keyMap, el.key)
               ELSE PositionalOld(byPos, st.posIdx)
        keyMap2 == IF keyed /\ old # Null THEN KeyDelete(st.keyMap, el.key)
                   ELSE st.keyMap
        posIdx2 == IF keyed THEN st.posIdx ELSE st.posIdx + 1
        sameType == SameType(fs, old, el)
        id == Len(fs) + 1
        newFiber == [(IF sameType
                      THEN Fiber(fs[old].type, el, fs[old].dom, fiber, old, UPDATE)
                      ELSE Fiber(el.type, el, Null, fiber, Null, PLACEMENT))
                        EXCEPT !.contextMap = fs[fiber].contextMap]
        m1 == IF ~sameType /\ old # Null THEN MarkDeletion(m, old) ELSE m
        m2 == [m1 EXCEPT !.fibers = Append(@, newFiber)]
        m3 == IF i = 1 THEN [m2 EXCEPT !.fibers[fiber].child = id]
              ELSE IF st.prev # Null THEN [m2 EXCEPT !.fibers[st.prev].sibling = id]
              ELSE m2
    IN  [m |-> m3, keyMap |-> keyMap2, posIdx |-> posIdx2, prev |-> id]

RECURSIVE ReconcileLoop(_, _, _, _, _)
ReconcileLoop(st0, fiber, byPos, elements, i) ==
    Only({IF i > Len(elements) THEN st
          ELSE ReconcileLoop(ReconcileStep(st, fiber, byPos, elements[i], i),
                             fiber, byPos, elements, i + 1) : st \in {st0}})

\* The previous fibers left over after the main loop: the unkeyed ones from
\* posIdx on, then the ones still in keyMap.
Rest(st, byPos) ==
    SubSeq(byPos, st.posIdx + 1, Len(byPos))
        \o [j \in 1..Len(st.keyMap) |-> st.keyMap[j].f]

\* The rest of reconcileChildren, after the main loop.
ReconcileEnd(st0, fiber, byPos) ==
    Only({IF st.prev # Null
          THEN [MarkDeletions(st.m, Rest(st, byPos), 1)
                   EXCEPT !.fibers[st.prev].sibling = Null, !.fibers[fiber].worked = TRUE]
          ELSE [MarkDeletions(st.m, Rest(st, byPos), 1)
                   EXCEPT !.fibers[fiber].worked = TRUE] : st \in {st0}})

reconcileChildren(m0, fiber, elements0) ==
    Only({LET alt == m.fibers[fiber].alternate
              oldFiber == IF alt # Null THEN m.fibers[alt].child ELSE Null
          IN  Only({ReconcileEnd(
                        ReconcileLoop([m |-> m, keyMap |-> look.keyMap, posIdx |-> 0,
                                       prev |-> Null],
                                      fiber, look.byPos, elements, 1),
                        fiber, look.byPos) :
                    look \in {BuildLookup(m.fibers, Chain(m.fibers, oldFiber), 1,
                                          [keyMap |-> <<>>, byPos |-> <<>>])}}) :
          m \in {m0}, elements \in {elements0}})

\* ------------------------------------------------------------------ hooks

\* The record of one run of an effect body or of a cleanup: the function run
\* (h), the hook it belongs to (f, i), and the cursor and the two roots at the
\* time of the run.
LogEntry(m, ev, h, f, i) ==
    [ev |-> ev, h |-> h, f |-> f, i |-> i,
     next |-> m.nextUnit, wip |-> m.wipRoot, cur |-> m.curRoot]

\* A hook object; the fields a kind does not have keep their empty value.
StateHook(state, cell) ==
    [kind |-> "state", state |-> state, cell |-> cell, hasDeps |-> FALSE,
     deps |-> <<>>, cleanup |-> Null, box |-> Null]

EffectHook(hasDeps, deps, cleanup) ==
    [kind |-> "effect", state |-> 0, cell |-> Null, hasDeps |-> hasDeps,
     deps |-> deps, cleanup |-> cleanup, box |-> Null]

\* The hook of useMemo: { value, deps }; state is the value.
MemoHook(hasDeps, deps, value) ==
    [kind |-> "memo", state |-> value, cell |-> Null, hasDeps |-> hasDeps,
     deps |-> deps, cleanup |-> Null, box |-> Null]

\* The hook of useRef is the box { current } itself; box is its identity.
RefHook(box) ==
    [kind |-> "ref", state |-> 0, cell |-> Null, hasDeps |-> FALSE,
     deps |-> <<>>, cleanup |-> Null, box |-> box]

\* Actions a dispatch handle is called with: the functions x => x + 1 and
\* x => x * 2, and the plain value 5.
Inc == [isFn |-> TRUE, v |-> 1]
Dbl == [isFn |-> TRUE, v |-> 2]
Set5 == [isFn |-> FALSE, v |-> 5]

\* The reducer useState passes to useReducer.
stateReducer(state, action) ==
    IF action.isFn THEN (IF action.v = 1 THEN state + 1 ELSE state * 2)
    ELSE action.v

\* for (_qi = 0; _qi < cell.queue.length; _qi++) state = reducer(state, queue[_qi])
RECURSIVE DrainLifo(_, _)
DrainLifo(state, queue) ==
    IF queue = <<>> THEN state
    ELSE DrainLifo(stateReducer(state, queue[Len(queue)]), SubSeq(queue, 1, Len(queue) - 1))

RECURSIVE Drain(_, _)
Drain(state, queue) ==
    IF queue = <<>> THEN state
    ELSE Drain(stateReducer(state, Head(queue)), Tail(queue))

\* wipFiber.alternate && wipFiber.alternate.hooks[hookIdx]
HasOldHook(m) ==
    /\ m.fibers[m.wipFiber].alternate # Null
    /\ m.hookIdx < Len(m.fibers[m.fibers[m.wipFiber].alternate].hooks)

OldHook(m) == m.fibers[m.fibers[m.wipFiber].alternate].hooks[m.hookIdx + 1]

\* useState(initial) = useReducer(stateReducer, initial)
\* The cell of a first render: { queue: [] }, with the record of its history.
NewCell(m, initial) ==
    [m EXCEPT !.cells = Append(@, [queue |-> <<>>, dispatch |-> Null]),
              !.hist = Append(@, [all |-> <<>>, since |-> <<>>, prev |-> initial,
                                  got |-> initial, drained |-> <<>>, renders |-> 0,
                                  handles |-> {}])]

\* if (!cell.dispatch) cell.dispatch = function (action) {...}: the function
\* object is named by the fiber whose render created it.
DispatchOfAlways(m, dispatch) == m.wipFiber

DispatchOf(m, dispatch) == IF dispatch = Null THEN m.wipFiber ELSE dispatch

useReducer(m0, initial) ==
    Only({LET hasOld == HasOldHook(m)
              cell == IF hasOld THEN OldHook(m).cell ELSE Len(m.cells) + 1
              old == IF hasOld THEN OldHook(m).state ELSE initial
              queue == IF hasOld THEN m.cells[cell].queue ELSE <<>>
              state == Drain(old, queue)
              since == IF hasOld THEN m.hist[cell].since ELSE <<>>
              handle == DispatchOf(m, IF hasOld THEN m.cells[cell].dispatch ELSE Null)
              handles == IF hasOld THEN m.hist[cell].handles ELSE {}
          IN  [(IF hasOld THEN m ELSE NewCell(m, initial))
                  EXCEPT !.cells[cell] = [queue |-> <<>>, dispatch |-> handle],
                         !.fibers[m.wipFiber].hooks = Append(@, StateHook(state, cell)),
                         !.hookIdx = @ + 1,
                         !.hist[cell] = [@ EXCEPT !.prev = old, !.got = state,
                                                  !.drained = since,
                                                  !.since = <<>>, !.renders = @ + 1,
                                                  !.handles = handles \cup {handle}]] :
          m \in {m0}})

SomeDiffersOrLength(deps, old) ==
    \/ ~old.hasDeps
    \/ Len(deps) # Len(old.deps)
    \/ \E i \in 1..Len(deps) : deps[i] # old.deps[i]

\* deps.some(function (d, i) { return d !== (oldHook.deps && oldHook.deps[i]); })
SomeDiffers(deps, old) ==
    \E i \in 1..Len(deps) :
        \/ ~old.hasDeps
        \/ i > Len(old.deps)
        \/ deps[i] # old.deps[i]

DepsChangedAlways(m, hasDeps, deps) == TRUE

DepsChanged(m, hasDeps, deps) ==
    \/ ~HasOldHook(m)
    \/ ~hasDeps
    \/ SomeDiffers(deps, OldHook(m))

\* useEffect(effect, deps); cl tells whether the effect body returns a cleanup.
useEffectEager(m0, cl, hasDeps, deps) ==
    Only({LET oldCleanup == IF HasOldHook(m) THEN OldHook(m).cleanup ELSE Null
              run == Cardinality({j \in 1..Len(m.log) : m.log[j].ev = "effect"}) + 1
          IN  IF DepsChanged(m, hasDeps, deps)
              THEN [m EXCEPT !.log = Append(@, LogEntry(m, "effect", run, m.wipFiber,
                                                        m.hookIdx + 1)),
                             !.fibers[m.wipFiber].hooks =
                                 Append(@, EffectHook(hasDeps, deps, IF cl THEN run ELSE Null)),
                             !.hookIdx = @ + 1]
              ELSE [m EXCEPT !.fibers[m.wipFiber].hooks =
                                 Append(@, EffectHook(hasDeps, deps, oldCleanup)),
                             !.hookIdx = @ + 1] : m \in {m0}})

useEffect(m0, cl, hasDeps, deps) ==
    Only({LET oldCleanup == IF HasOldHook(m) THEN OldHook(m).cleanup ELSE Null
              hook == EffectHook(hasDeps, deps, oldCleanup)
              item == [cl |-> cl, oldCleanup |-> oldCleanup,
                       hookF |-> m.wipFiber, hookI |-> m.hookIdx + 1]
          IN  [(IF DepsChanged(m, hasDeps, deps)
                THEN [m EXCEPT !.fibers[m.wipFiber].pend = Append(@, item)]
                ELSE m)
                  EXCEPT !.fibers[m.wipFiber].hooks = Append(@, hook), !.hookIdx = @ + 1] :
          m \in {m0}})

\* useMemo(factory, deps).  A factory that makes a new object is fn = Null, and
\* the object is named by the call that made it; the factory of useCallback
\* returns the function fn.  Every call of a factory is put on the log.
useMemoStale(m0, fn, hasDeps, deps) ==
    Only({LET call == Cardinality({j \in 1..Len(m.log) : m.log[j].ev = "factory"}) + 1
              value == IF fn = Null THEN call ELSE fn
          IN  IF ~HasOldHook(m)
              THEN [m EXCEPT !.log = Append(@, LogEntry(m, "factory", call, m.wipFiber,
                                                        m.hookIdx + 1)),
                             !.fibers[m.wipFiber].hooks =
                                 Append(@, MemoHook(hasDeps, deps, value)),
                             !.hookIdx = @ + 1]
              ELSE [m EXCEPT !.fibers[m.wipFiber].hooks =
                                 Append(@, MemoHook(hasDeps, deps, OldHook(m).state)),
                             !.hookIdx = @ + 1] : m \in {m0}})

useMemo(m0, fn, hasDeps, deps) ==
    Only({LET call == Cardinality({j \in 1..Len(m.log) : m.log[j].ev = "factory"}) + 1
              value == IF fn = Null THEN call ELSE fn
          IN  IF DepsChanged(m, hasDeps, deps)
              THEN [m EXCEPT !.log = Append(@, LogEntry(m, "factory", call, m.wipFiber,
                                                        m.hookIdx + 1)),
                             !.fibers[m.wipFiber].hooks =
                                 Append(@, MemoHook(hasDeps, deps, value)),
                             !.hookIdx = @ + 1]
              ELSE [m EXCEPT !.fibers[m.wipFiber].hooks =
                                 Append(@, MemoHook(hasDeps, deps, OldHook(m).state)),
                             !.hookIdx = @ + 1] : m \in {m0}})

\* useCallback(fn, deps) = useMemo(function () { return fn; }, deps)
useCallback(m, fn, hasDeps, deps) == useMemo(m, fn, hasDeps, deps)

\* useRef(initial): the previous hook object itself when there is one, else a
\* fresh box { current: initial }.
useRefFresh(m0, initial) ==
    Only({[m EXCEPT !.refs = Append(@, initial),
                    !.fibers[m.wipFiber].hooks = Append(@, RefHook(Len(m.refs) + 1)),
                    !.hookIdx = @ + 1] : m \in {m0}})

useRef(m0, initial) ==
    Only({IF HasOldHook(m)
          THEN [m EXCEPT !.fibers[m.wipFiber].hooks = Append(@, OldHook(m)),
                         !.hookIdx = @ + 1]
          ELSE [m EXCEPT !.refs = Append(@, initial),
                         !.fibers[m.wipFiber].hooks = Append(@, RefHook(Len(m.refs) + 1)),
                         !.hookIdx = @ + 1] : m \in {m0}})

\* useContext(ctx)
useContext(m, id) ==
    IF /\ m.wipFiber # Null
       /\ m.fibers[m.wipFiber].contextMap # Null
       /\ m.maps[m.fibers[m.wipFiber].contextMap][id].has
    THEN m.maps[m.fibers[m.wipFiber].contextMap][id].v
    ELSE DefaultValue(id)

\* ---------------------------------------------------- the dispatch handle

scheduleUpdateUnscheduled(m0) ==
    Only({IF m.curRoot = Null THEN m
          ELSE LET id == Len(m.fibers) + 1
                   root == Fiber("root", m.fibers[m.curRoot].props, m.fibers[m.curRoot].dom,
                                 Null, m.curRoot, NoTag)
               IN  [m EXCEPT !.fibers = Append(@, root), !.wipRoot = id,
                             !.nextUnit = id, !.deletions = <<>>, !.trace = <<>>] :
          m \in {m0}})

\* scheduleUpdate(): a new root over the committed one, unless nothing is
\* committed yet.
scheduleUpdate(m0) ==
    Only({IF m.curRoot = Null THEN m
          ELSE LET id == Len(m.fibers) + 1
                   root == Fiber("root", m.fibers[m.curRoot].props, m.fibers[m.curRoot].dom,
                                 Null, m.curRoot, NoTag)
               IN  scheduleWork([m EXCEPT !.fibers = Append(@, root), !.wipRoot = id,
                                          !.nextUnit = id, !.deletions = <<>>,
                                          !.trace = <<>>]) :
          m \in {m0}})

dispatchSync(m, cell, action) ==
    scheduleUpdate([m EXCEPT !.cells[cell].queue = Append(@, action),
                             !.fibers = [f \in 1..Len(m.fibers) |->
                                 [m.fibers[f] EXCEPT !.hooks = [i \in 1..Len(m.fibers[f].hooks) |->
                                     IF m.fibers[f].hooks[i].cell = cell
                                     THEN [m.fibers[f].hooks[i] EXCEPT
                                              !.state = stateReducer(@, action)]
                                     ELSE m.fibers[f].hooks[i]]]],
                             !.hist[cell].all = Append(@, action),
                             !.hist[cell].since = Append(@, action)])

\* cell.dispatch(action): cell.queue.push(action); scheduleUpdate()
dispatch(m, cell, action) ==
    scheduleUpdate([m EXCEPT !.cells[cell].queue = Append(@, action),
                             !.hist[cell].all = Append(@, action),
                             !.hist[cell].since = Append(@, action)])

\* A call of the dispatch handle of fiber f's first hook with x => x + 1, made
\* by a function of f when f is a component of type `type`.
CallDispatch(m0, f, type) ==
    Only({IF m.fibers[f].type = type
          THEN dispatch(m, m.fibers[f].hooks[1].cell, Inc)
          ELSE m : m \in {m0}})

\* ---------------------------------------------------------- per-fiber work

\* ctx.Provider(props): tags the fiber with id -> props.value and returns the
\* first child, or null.
ProviderComponent(m0, id, props) ==
    Only({[m |-> IF m.wipFiber # Null
                 THEN [m EXCEPT !.fibers[m.wipFiber].ctxProvide[id] = Entry(props.value)]
                 ELSE m,
           output |-> IF props.children # <<>> THEN <<props.children[1]>> ELSE <<NullEl>>] :
          m \in {m0}})

\* A component that reads a context:
\*   Reader(props) { var v = useContext(ctx); return props.children; }
ReaderComponent(m0, id, props) ==
    Only({[m |-> [m EXCEPT !.fibers[m.wipFiber].seen = useContext(m, id)],
           output |-> props.children] : m \in {m0}})

\* A component that counts its renders in a reference box:
\*   RefComp(props) { useState(0); var r = useRef(0);
\*                    r.current = r.current + 1; return props.children; }
RefComponent(m0, props) ==
    Only({LET box == m.fibers[m.wipFiber].hooks[m.hookIdx].box
          IN  [m |-> [m EXCEPT !.fibers[m.wipFiber].seen = m.refs[box],
                               !.refs[box] = @ + 1],
               output |-> props.children] : m \in {useRef(useReducer(m0, 0), 0)}})

\* A component that caches an object and a callback:
\*   MemoComp(props) { useState(0);
\*                     var v = useMemo(function () { return {}; }, props.deps);
\*                     var cb = useCallback(function () {}, props.deps);
\*                     return props.children; }
\* The function passed to useCallback is a new one in every render, named by
\* the fiber rendered; seen is v.
MemoComponent(m0, props) ==
    Only({[m |-> [m EXCEPT !.fibers[m.wipFiber].seen =
                               m.fibers[m.wipFiber].hooks[2].state],
           output |-> props.children] :
          m \in {useCallback(useMemo(useReducer(m0, 0), Null, props.hasDeps, props.deps),
                             m0.wipFiber, props.hasDeps, props.deps)}})

\* A component that fails when props.value is set:
\*   Boom(props) { useState(0); if (props.value) throw new Error(); return props.children; }
BoomComponent(m0, props) ==
    Only({[m |-> IF props.value # 0 THEN [m EXCEPT !.thrown = ErrorValue] ELSE m,
           output |-> props.children] : m \in {useReducer(m0, 0)}})

\* LazyWrapper(props), the function lazy(factory) returns; the module resolves
\* to the component Comp.
LazyWrapper(m0, props) ==
    Only({IF m.lazy.status = "resolved"
          THEN [m |-> m, output |-> <<createElementOfProps("Comp", props)>>]
          ELSE [m |-> [m EXCEPT !.thrown = Thenable(m.lazy.thenable)],
                output |-> <<>>] : m \in {m0}})

\* A component that calls its dispatch handle while it renders:
\*   CallInRender(props) { var s = useState(0);
\*                         if (s[0] === 0) s[1](function (x) { return x + 1; });
\*                         return props.children; }
CallInRender(m0, props) ==
    Only({[m |-> IF m.fibers[m.wipFiber].hooks[1].state = 0
                 THEN CallDispatch(m, m.wipFiber, "CallInRender")
                 ELSE m,
           output |-> props.children] : m \in {useReducer(m0, 0)}})

\* Components whose effect body, or the cleanup it returns, calls the
\* dispatch handle (see RunEffect and RunCleanups):
\*   CallInEffect(props)  { var s = useState(0);
\*                          useEffect(function () { s[1](inc); }, props.deps);
\*                          return props.children; }
\*   CallInCleanup(props) { var s = useState(0);
\*                          useEffect(function () { return function () { s[1](inc); }; },
\*                                    props.deps);
\*                          return props.children; }
CallInHook(m0, props) ==
    Only({[m |-> useEffect(useReducer(m, 0), props.cl, props.hasDeps, props.deps),
           output |-> props.children] : m \in {m0}})

\* fiber.type(fiber.props) for the two function components of the model:
\*   Fragment(props) { return props.children; }
\*   Comp(props)     { useState(0); useEffect(body, props.deps); return props.children; }
\* where body returns a cleanup function iff props.cl.
CallComponent(m0, fiber) ==
    Only({LET props == m.fibers[fiber].props
              type == m.fibers[fiber].type
          IN  IF type = "Comp"
              THEN [m |-> useEffect(useReducer(m, 0), props.cl, props.hasDeps, props.deps),
                    output |-> props.children]
              ELSE IF type \in {"ProviderA", "ProviderB"}
              THEN ProviderComponent(m, CtxOf(type), props)
              ELSE IF type \in {"ReaderA", "ReaderB"}
              THEN ReaderComponent(m, CtxOf(type), props)
              ELSE IF type = "RefComp" THEN RefComponent(m, props)
              ELSE IF type = "Boom" THEN BoomComponent(m, props)
              ELSE IF type = "MemoComp" THEN MemoComponent(m, props)
              ELSE IF type = "Lazy" THEN LazyWrapper(m, props)
              ELSE IF type = "CallInRender" THEN CallInRender(m, props)
              ELSE IF type \in {"CallInEffect", "CallInCleanup"} THEN CallInHook(m, props)
              ELSE [m |-> m, output |-> props.children] : m \in {m0}})

\* flattenChildren(output): null, undefined and false entries are dropped.
flattenChildren(output) == SelectSeq(output, LAMBDA e : e # NullEl)

\* Object.assign(fiber.contextMap, fiber._ctxProvide): a write into the object
\* the fiber inherited.
LayerContextInPlace(m0, fiber) ==
    Only({LET c == m.fibers[fiber].contextMap
              provide == m.fibers[fiber].ctxProvide
          IN  IF provide = NoMap THEN m
              ELSE IF c = Null
              THEN [m EXCEPT !.maps = Append(@, Assign(NoMap, provide)),
                             !.fibers[fiber].contextMap = Len(m.maps) + 1,
                             !.fibers[fiber].ctxProvide = NoMap]
              ELSE [m EXCEPT !.maps[c] = Assign(@, provide),
                             !.fibers[fiber].ctxProvide = NoMap] : m \in {m0}})

\* if (fiber._ctxProvide) { fiber.contextMap = Object.assign({}, fiber.contextMap,
\*                           fiber._ctxProvide); fiber._ctxProvide = null; }
\* The copy is a new object of the heap.
LayerContext(m0, fiber) ==
    Only({LET c == m.fibers[fiber].contextMap
              provide == m.fibers[fiber].ctxProvide
              under == IF c = Null THEN NoMap ELSE m.maps[c]
          IN  IF provide = NoMap THEN m
              ELSE [m EXCEPT !.maps = Append(@, Assign(under, provide)),
                             !.fibers[fiber].contextMap = Len(m.maps) + 1,
                             !.fibers[fiber].ctxProvide = NoMap] : m \in {m0}})

\* A throw of the component leaves the function at once.
updateFunctionComponent(m0, fiber) ==
    Only({IF r.m.thrown # NoThrow THEN r.m
          ELSE reconcileChildren(LayerContext(r.m, fiber), fiber, flattenChildren(r.output)) :
          r \in {CallComponent([m0 EXCEPT !.wipFiber = fiber, !.hookIdx = 0,
                                          !.fibers[fiber].hooks = <<>>,
                                          !.fibers[fiber].ctxProvide = NoMap], fiber)}})

updateHostComponentFresh(m0, fiber) ==
    Only({reconcileChildren(createDom(m, fiber), fiber, m.fibers[fiber].props.children) :
          m \in {m0}})

updateHostComponentEager(m0, fiber) ==
    Only({reconcileChildren(
              IF m.fibers[fiber].dom = Null THEN createDom(m, fiber)
              ELSE IF m.fibers[fiber].alternate = Null THEN m
              ELSE patchDom(m, m.fibers[fiber].dom,
                            m.fibers[m.fibers[fiber].alternate].props.cls,
                            m.fibers[fiber].props.cls),
              fiber, m.fibers[fiber].props.children) : m \in {m0}})

updateHostComponent(m0, fiber) ==
    Only({reconcileChildren(IF m.fibers[fiber].dom = Null THEN createDom(m, fiber) ELSE m,
                            fiber, m.fibers[fiber].props.children) : m \in {m0}})

\* The fiber after `fiber` in the walk: child, else sibling, else uncle.
UncleSkip(fs, next) ==
    IF next = Null \/ fs[next].parent = Null THEN Null
    ELSE fs[fs[next].parent].sibling

RECURSIVE Uncle(_, _)
Uncle(fs, next) ==
    IF next = Null THEN Null
    ELSE IF fs[next].sibling # Null THEN fs[next].sibling
    ELSE Uncle(fs, fs[next].parent)

\* performUnit(fiber); the returned fiber is stored in nextUnit by workLoop,
\* unless the unit throws.
performUnit(m0, fiber) ==
    Only({IF m1.thrown # NoThrow THEN m1
          ELSE [m1 EXCEPT !.nextUnit =
                   IF m1.fibers[fiber].child # Null THEN m1.fibers[fiber].child
                   ELSE Uncle(m1.fibers, fiber)] :
          m1 \in {IF IsFunction(m0.fibers[fiber].type)
                   THEN updateFunctionComponent([m0 EXCEPT !.trace = Append(@, fiber)], fiber)
                   ELSE updateHostComponent([m0 EXCEPT !.trace = Append(@, fiber)], fiber)}})

\* ----------------------------------------------------------- commit phase

\* nearestDom(fiber): the node of the nearest ancestor that has one.
RECURSIVE NearestUp(_, _)
NearestUp(fs, f) ==
    IF f = Null THEN Null
    ELSE IF fs[f].dom # Null THEN fs[f].dom
    ELSE NearestUp(fs, fs[f].parent)

nearestDom(fs, fiber) == NearestUp(fs, fs[fiber].parent)

\* flushFiberEffects(fiber): move fiber._pendingEffects to pendingEffects.
flushFiberEffects(m0, fiber) ==
    Only({[m EXCEPT !.pendingEffects = @ \o m.fibers[fiber].pend,
                    !.fibers[fiber].pend = <<>>] : m \in {m0}})

\* removeFiberDom(fiber, parentDom): remove the first node found going down
\* the first-child chain.
\* The first fiber with a node, going down the first-child chain from f.
RECURSIVE FirstWithDom(_, _)
FirstWithDom(fs, f) ==
    IF f = Null THEN Null
    ELSE IF fs[f].dom # Null THEN f
    ELSE FirstWithDom(fs, fs[f].child)

removeFiberDom(m0, fiber, parentDom) ==
    Only({LET f == FirstWithDom(m.fibers, fiber)
          IN  IF f # Null /\ parentDom # Null
              THEN removeChild(m, parentDom, m.fibers[f].dom)
              ELSE m : m \in {m0}})

\* hooks[hi].cleanup(), for every hook of the fiber that has one, in order.
RECURSIVE RunCleanups(_, _, _)
RunCleanups(m0, f, hi) ==
    Only({IF hi > Len(m.fibers[f].hooks) THEN m
          ELSE LET h == m.fibers[f].hooks[hi]
               IN  RunCleanups(
                       IF h.cleanup # Null
                       THEN CallDispatch(
                                [m EXCEPT !.log = Append(@, LogEntry(m, "cleanup", h.cleanup,
                                                                     f, hi))],
                                f, "CallInCleanup")
                       ELSE m,
                       f, hi + 1) : m \in {m0}})

\* cleanupEffectTree(fiber): run the cleanups of the fiber, then go to its child.
RECURSIVE cleanupEffectTree(_, _)
cleanupEffectTree(m0, f) ==
    Only({IF f = Null THEN m
          ELSE cleanupEffectTree(RunCleanups(m, f, 1), m.fibers[f].child) : m \in {m0}})

commitDeletion(m, fiber, parentDom) ==
    cleanupEffectTree(removeFiberDom(m, fiber, parentDom), fiber)

CommitFrameToContainer(m0, fiber, parentDom) ==
    Only({LET fb == m.fibers[fiber]
          IN  IF fb.effectTag = PLACEMENT /\ fb.dom # Null /\ parentDom # Null
              THEN appendChild(m, Container, fb.dom)
              ELSE IF fb.effectTag = UPDATE /\ fb.dom # Null
              THEN wireRef(patchDom(m, fb.dom, m.fibers[fb.alternate].props.cls,
                                    fb.props.cls), fiber)
              ELSE m : m \in {m0}})

\* One frame of the stack walk of commitWork.
CommitFrame(m0, fiber, parentDom) ==
    Only({LET fb == m.fibers[fiber]
          IN  IF fb.effectTag = PLACEMENT /\ fb.dom # Null /\ parentDom # Null
              THEN appendChild(m, parentDom, fb.dom)
              ELSE IF fb.effectTag = UPDATE /\ fb.dom # Null
              THEN wireRef(patchDom(m, fb.dom, m.fibers[fb.alternate].props.cls,
                                    fb.props.cls), fiber)
              ELSE m : m \in {m0}})

\* The while loop of commitWork over its explicit stack of {f, p} frames; the
\* top of the stack is the last element.
RECURSIVE CommitLoop(_, _)
CommitLoop(m0, stack0) ==
    Only({IF stack = <<>> THEN m
          ELSE LET frame == stack[Len(stack)]
                   rest == SubSeq(stack, 1, Len(stack) - 1)
                   fiber == frame.f
                   parentDom == frame.p
                   fb == m.fibers[fiber]
                   childParent == IF fb.dom # Null THEN fb.dom ELSE parentDom
                   s1 == IF fb.sibling # Null
                         THEN Append(rest, [f |-> fb.sibling, p |-> parentDom])
                         ELSE rest
                   s2 == IF fb.child # Null
                         THEN Append(s1, [f |-> fb.child, p |-> childParent])
                         ELSE s1
               IN  IF fiber = Null THEN CommitLoop(m, rest)
                   ELSE IF fb.effectTag = DELETION
                   THEN CommitLoop(
                            flushFiberEffects(commitDeletion(m, fiber, parentDom), fiber),
                            rest)
                   ELSE CommitLoop(
                            flushFiberEffects(CommitFrame(m, fiber, parentDom), fiber),
                            s2) :
          m \in {m0}, stack \in {stack0}})

commitWork(m, startFiber, startParentDom) ==
    CommitLoop(m, <<[f |-> startFiber, p |-> startParentDom]>>)

\* deletions.forEach(function (f) { commitWork(f, nearestDom(f)); })
RECURSIVE CommitDeletions(_, _, _)
CommitDeletions(m0, ds, i) ==
    Only({IF i > Len(ds) THEN m
          ELSE CommitDeletions(commitWork(m, ds[i], nearestDom(m.fibers, ds[i])), ds, i + 1) :
          m \in {m0}})

\* One queued effect: the previous cleanup, then the effect body, whose return
\* value is written to the hook.  The body's run number names the cleanup
\* function it returns.
\* The number of effect bodies run so far.
Runs(m) == Cardinality({j \in 1..Len(m.log) : m.log[j].ev = "effect"})

RunEffectNoCleanup(m0, item) ==
    Only({[m EXCEPT !.log = Append(@, LogEntry(m, "effect", Runs(m) + 1,
                                               item.hookF, item.hookI)),
                    !.fibers[item.hookF].hooks[item.hookI].cleanup =
                        IF item.cl THEN Runs(m) + 1 ELSE Null] : m \in {m0}})

RunEffect(m0, item) ==
    Only({[m2 EXCEPT !.fibers[item.hookF].hooks[item.hookI].cleanup =
                         IF item.cl THEN Runs(m2) ELSE Null] :
          m2 \in {CallDispatch(
                      [m1 EXCEPT !.log = Append(@, LogEntry(m1, "effect", Runs(m1) + 1,
                                                            item.hookF, item.hookI))],
                      item.hookF, "CallInEffect") :
                  m1 \in {IF item.oldCleanup # Null
                          THEN CallDispatch(
                                   [m EXCEPT !.log = Append(@, LogEntry(m, "cleanup",
                                                                        item.oldCleanup,
                                                                        item.hookF,
                                                                        item.hookI))],
                                   item.hookF, "CallInCleanup")
                          ELSE m : m \in {m0}}}})

RECURSIVE RunEffects(_, _, _)
RunEffects(m0, toRun, i) ==
    Only({IF i > Len(toRun) THEN m
          ELSE RunEffects(RunEffect(m, toRun[i]), toRun, i + 1) : m \in {m0}})

CommitTreeEffectsFirst(m0) ==
    Only({[m2 EXCEPT !.curRoot = m2.wipRoot, !.wipRoot = Null] :
          m2 \in {RunEffects([m EXCEPT !.pendingEffects = <<>>], m.pendingEffects, 1) :
                  m \in {IF m0.fibers[m0.wipRoot].child # Null
                         THEN commitWork(m0, m0.fibers[m0.wipRoot].child,
                                         m0.fibers[m0.wipRoot].dom)
                         ELSE m0}}})

\* The part of commitRoot after the deletions: the walk of the new tree, the
\* swap of the roots and the queued effects.
CommitTree(m0) ==
    Only({RunEffects([m EXCEPT !.curRoot = m.wipRoot, !.wipRoot = Null,
                               !.pendingEffects = <<>>],
                     m.pendingEffects, 1) :
          m \in {IF m0.fibers[m0.wipRoot].child # Null
                  THEN commitWork(m0, m0.fibers[m0.wipRoot].child, m0.fibers[m0.wipRoot].dom)
                  ELSE m0}})

commitRootTreeFirst(m0) ==
    Only({RunEffects([m EXCEPT !.curRoot = m.wipRoot, !.wipRoot = Null,
                               !.pendingEffects = <<>>],
                     m.pendingEffects, 1) :
          m \in {CommitDeletions(
                     IF m0.fibers[m0.wipRoot].child # Null
                     THEN commitWork([m0 EXCEPT !.ops = <<>>], m0.fibers[m0.wipRoot].child,
                                     m0.fibers[m0.wipRoot].dom)
                     ELSE [m0 EXCEPT !.ops = <<>>],
                     m0.deletions, 1)}})

commitRoot(m0) ==
    Only({CommitTree(m) : m \in {CommitDeletions([m0 EXCEPT !.ops = <<>>], m0.deletions, 1)}})

\* ------------------------------------------------------------- work loop

\* while (nextUnit && deadline.timeRemaining() > 1) nextUnit = performUnit(nextUnit);
\* budget is the number of units the deadline leaves time for.
RECURSIVE Units(_, _)
Units(m0, budget) ==
    Only({IF m.nextUnit = Null \/ budget = 0 \/ m.thrown # NoThrow THEN m
          ELSE Units(performUnit(m, m.nextUnit), budget - 1) : m \in {m0}})

\* if (!nextUnit && wipRoot) commitRoot();
CommitIfDone(m0) ==
    Only({IF m.nextUnit = Null /\ m.wipRoot # Null THEN commitRoot(m) ELSE m : m \in {m0}})

RearmNever(m0) == m0

\* if (nextUnit) scheduleWork();
RearmIfLeft(m0) ==
    Only({IF m.nextUnit # Null THEN scheduleWork(m) ELSE m : m \in {m0}})

\* An exception of a unit leaves workLoop at once and goes to the host, which
\* called the idle callback; nothing in the source catches it.  throws records
\* the value, the fiber the cursor is on and the status of the lazy module.
Escape(m0) ==
    Only({[m EXCEPT !.thrown = NoThrow,
                    !.throws = Append(@, [value |-> m.thrown, fiber |-> m.nextUnit,
                                          status |-> m.lazy.status])] :
          m \in {m0}})

AfterUnitsRetry(m0) ==
    Only({IF m.thrown # NoThrow THEN RearmIfLeft(Escape(m))
          ELSE RearmIfLeft(CommitIfDone(m)) : m \in {m0}})

AfterUnits(m0) ==
    Only({IF m.thrown # NoThrow THEN Escape(m)
          ELSE RearmIfLeft(CommitIfDone(m)) : m \in {m0}})

workLoop(m, budget) ==
    AfterUnits(Units([m EXCEPT !.scheduled = FALSE, !.callbacks = @ - 1], budget))

\* ------------------------------------------------------------- triggers

renderOverWip(m, element, container) ==
    LET id == Len(m.fibers) + 1
        root == Fiber("root", RootProps(element), container, Null,
                      IF m.wipRoot # Null THEN m.wipRoot ELSE m.curRoot, NoTag)
    IN  scheduleWork([m EXCEPT !.fibers = Append(@, root), !.wipRoot = id,
                               !.nextUnit = id, !.deletions = <<>>, !.trace = <<>>])

render(m, element, container) ==
    LET id == Len(m.fibers) + 1
        root == Fiber("root", RootProps(element), container, Null, m.curRoot, NoTag)
    IN  scheduleWork([m EXCEPT !.fibers = Append(@, root), !.wipRoot = id,
                               !.nextUnit = id, !.deletions = <<>>, !.trace = <<>>])

\* ------------------------------------------------- descriptions rendered

Li(key) == createElement("li", key, "", <<>>)
Span == createElement("span", NoKey, "", <<>>)
Ul(kids) == createElement("ul", NoKey, "", kids)
Div(cls, kids) == createElement("div", NoKey, cls, kids)

\* Lists of keyed items, in several orders, and with an unkeyed item among them.
KeyedDescs ==
    {Ul(<<Li("a"), Li("b")>>), Ul(<<Li("b"), Li("a")>>),
     Ul(<<Li("c"), Li("a"), Li("b")>>), Ul(<<Li("a"), Span, Li("b")>>)}

\* A list that repeats a key.
RepeatDescs == {Ul(<<Li("a"), Li("a")>>), Ul(<<Li("a"), Span, Li("b")>>)}

\* The component Comp with several dependency lists, with and without a cleanup.
HookDescs ==
    {CompEl(NoKey, TRUE, <<1>>, TRUE, <<Span>>),
     CompEl(NoKey, TRUE, <<2>>, TRUE, <<Span>>),
     CompEl(NoKey, FALSE, <<>>, FALSE, <<Span>>)}

\* Subtrees whose removal leaves effects to clean up below a first child and
\* below a later child.
DeletionDescs ==
    {Div("x", <<CompEl(NoKey, TRUE, <<1>>, TRUE, <<CompEl(NoKey, TRUE, <<1>>, TRUE, <<>>)>>)>>),
     Div("", <<createElement("Fragment", NoKey, "",
                   <<Span, CompEl(NoKey, TRUE, <<1>>, TRUE, <<>>)>>)>>),
     Span}

\* The component RefComp, with and without a child, at the root and below a
\* host element.
RefEl(kids) == ValueEl("RefComp", 0, kids)

RefDescs == {RefEl(<<Span>>), RefEl(<<>>), Div("", <<RefEl(<<>>)>>)}

\* Providers of two contexts, side by side and nested, with readers below
\* them, beside them and under no provider of their context.
Provider(id, value, kid) == ValueEl(IF id = "A" THEN "ProviderA" ELSE "ProviderB", value, <<kid>>)
Reader(id) == ValueEl(IF id = "A" THEN "ReaderA" ELSE "ReaderB", 0, <<>>)

ContextDescs ==
    {Div("", <<Provider("A", 1, Div("", <<Provider("A", 2, Reader("A")), Reader("A")>>)),
               Provider("A", 4, Provider("B", 3, Reader("A")))>>),
     Provider("B", 5, CompEl(NoKey, FALSE, <<>>, FALSE, <<Reader("B"), Reader("A")>>))}

\* The lazy wrapper with and without a child, and a host element.
LazyEl(kids) == ValueEl("Lazy", 0, kids)

LazyDescs == {LazyEl(<<Span>>), LazyEl(<<>>), Span}

\* The component Boom, sound and failing, at the root and after a sibling.
BoomEl(value, kids) == ValueEl("Boom", value, kids)

BoomDescs ==
    {BoomEl(0, <<Span>>), BoomEl(1, <<Span>>), Div("", <<Span, BoomEl(1, <<>>)>>)}

\* A host element that hands its output node to the box the host made, as the
\* last fiber of its tree and before another.
OutRefDescs ==
    {CompEl(NoKey, TRUE, <<>>, FALSE, <<WithRef(Span, 1)>>),
     Div("", <<WithRef(Span, 1), Span>>)}

\* The component MemoComp with no dependency list and with lists of one and
\* of two dependencies; its child is rendered after it.
MemoEl(hasDeps, deps) ==
    [CompEl(NoKey, hasDeps, deps, FALSE, <<Span>>) EXCEPT !.type = "MemoComp"]

MemoDescs ==
    {MemoEl(FALSE, <<>>), MemoEl(TRUE, <<1>>), MemoEl(TRUE, <<1, 2>>)}

\* Two call sites of the component Comp: from the first description to the
\* second the dependency list of one gets shorter and that of the other
\* appears; from the second to the first, one gets longer and one disappears.
DepsEl(hasDeps, deps) == CompEl(NoKey, hasDeps, deps, FALSE, <<>>)

DepsDescs ==
    {Div("", <<DepsEl(TRUE, <<1, 2>>), DepsEl(FALSE, <<>>)>>),
     Div("", <<DepsEl(TRUE, <<1>>), DepsEl(TRUE, <<1>>)>>)}

\* --------------------------------------------------------------- actions

\* The number of reference boxes the host made for a description: the boxes
\* are numbered from 1 and the description names them in its ref props.
RECURSIVE HostBoxes(_)
HostBoxes(el) ==
    LET below == {HostBoxes(el.children[i]) : i \in 1..Len(el.children)} \cup {el.ref}
    IN  CHOOSE n \in below : \A k \in below : k <= n

BoxesOf(descs) ==
    LET each == {HostBoxes(d) : d \in descs} \cup {Null}
    IN  CHOOSE n \in each : \A k \in each : k <= n

InitWith(descs, actions) ==
    /\ fibers = <<>>
    /\ cells = <<>>
    /\ nextUnit = Null
    /\ wipRoot = Null
    /\ curRoot = Null
    /\ deletions = <<>>
    /\ wipFiber = Null
    /\ hookIdx = 0
    /\ pendingEffects = <<>>
    /\ scheduled = FALSE
    /\ callbacks = 0
    /\ domKids = << <<>> >>
    /\ domCls = <<"">>
    /\ log = <<>>
    /\ hist = <<>>
    /\ refs = [b \in 1..BoxesOf(descs) |-> Null]
    /\ maps = <<>>
    /\ lazy = LazyClosure
    /\ trace = <<>>
    /\ ops = <<>>
    /\ throws = <<>>
    /\ universe = [descs |-> descs, actions |-> actions]
    /\ nRender = 0
    /\ nTrigger = 0

\* The host calls render(element, container).
Render(element) ==
    /\ nRender < MaxRender
    /\ nTrigger < MaxTrigger
    /\ \E m \in {render(Cur, element, Container)} : Install(m)
    /\ nRender' = nRender + 1
    /\ nTrigger' = nTrigger + 1
    /\ UNCHANGED universe

\* Some holder of a dispatch handle calls it.
Dispatch(cell, action) ==
    /\ nTrigger < MaxTrigger
    /\ cells[cell].dispatch # Null
    /\ \E m \in {dispatch(Cur, cell, action)} : Install(m)
    /\ nTrigger' = nTrigger + 1
    /\ UNCHANGED <<universe, nRender>>

\* The idle callback handed to ric fires, with time for `budget` units.
WorkLoop(budget) ==
    /\ callbacks > 0
    /\ \E m \in {workLoop(Cur, budget)} : Install(m)
    /\ UNCHANGED <<universe, nRender, nTrigger>>

\* The promise of the factory resolves: the callback passed to then() runs.
Resolve ==
    /\ lazy.status = "pending"
    /\ \E m \in {[Cur EXCEPT !.lazy.status = "resolved"]} : Install(m)
    /\ UNCHANGED <<universe, nRender, nTrigger>>

Next ==
    \/ \E element \in universe.descs : Render(element)
    \/ \E cell \in 1..Len(cells) : \E action \in universe.actions : Dispatch(cell, action)
    \/ \E budget \in 0..MaxBudget : WorkLoop(budget)

Init == InitWith(HookDescs, {Inc, Dbl})
Spec == Init /\ [][Next]_vars

InitKeyed == InitWith(KeyedDescs \cup {CompEl(NoKey, FALSE, <<>>, FALSE, <<Li("a"), NullEl, Li("b")>>)}, {Set5})
SpecKeyed == InitKeyed /\ [][Next]_vars

InitRepeat == InitWith(RepeatDescs \cup {CompEl(NoKey, FALSE, <<>>, FALSE, <<Li("a"), Li("a")>>)}, {Set5})
SpecRepeat == InitRepeat /\ [][Next]_vars

InitDeletion == InitWith(DeletionDescs, {Inc})
SpecDeletion == InitDeletion /\ [][Next]_vars

InitContext == InitWith(ContextDescs, {Inc})
SpecContext == InitContext /\ [][Next]_vars

\* The host renders the lazy wrapper, and the module arrives at some moment.
NextLazy == Next \/ Resolve

InitLazy == InitWith(LazyDescs, {Inc})
SpecLazy == InitLazy /\ [][NextLazy]_vars

InitThrow == InitWith(BoomDescs, {Inc})
SpecThrow == InitThrow /\ [][Next]_vars

InitRef == InitWith(RefDescs, {Inc})
SpecRef == InitRef /\ [][Next]_vars

InitMemo == InitWith(MemoDescs, {Inc})
SpecMemo == InitMemo /\ [][Next]_vars

InitDeps == InitWith(DepsDescs, {Inc})
SpecDeps == InitDeps /\ [][Next]_vars

InitOutRef == InitWith(OutRefDescs, {Inc})
SpecOutRef == InitOutRef /\ [][Next]_vars

\* A list whose re-render pairs, by key and by position, previous children of
\* the same type and of another type, and leaves descriptions and previous
\* children unpaired.
PairDescs ==
    {Ul(<<Li("a"), Span, Li("b"), CompEl(NoKey, TRUE, <<>>, FALSE, <<>>)>>),
     Ul(<<Div("", <<>>), createElement("span", "a", "", <<>>),
          CompEl(NoKey, TRUE, <<>>, FALSE, <<>>), Li("b"), Span>>)}

InitPair == InitWith(PairDescs, {Inc})
SpecPair == InitPair /\ [][Next]_vars

\* A tree of more units than one callback has time for, and a small one.  The
\* host (requestIdleCallback, or the setTimeout fallback) runs every callback
\* it was handed, and an idle deadline leaves time for a unit again and again:
\* a callback with time for at least one unit is not postponed for ever.
LiveDescs ==
    {Div("", <<CompEl(NoKey, TRUE, <<>>, FALSE, <<Span>>), Span, Span>>), Span}

InitLive == InitWith(LiveDescs, {Inc})
SpecLive ==
    InitLive /\ [][Next]_vars /\ WF_vars(\E budget \in 1..MaxBudget : WorkLoop(budget))

\* A list with a function component among its items, and the same list with a
\* new item before the others.
OrderDescs ==
    {Ul(<<Li("a"), CompEl("k", FALSE, <<>>, FALSE, <<Span>>)>>),
     Ul(<<Li("c"), Li("a"), CompEl("k", FALSE, <<>>, FALSE, <<Span>>)>>)}

InitOrder == InitWith(OrderDescs, {Inc})
SpecOrder == InitOrder /\ [][Next]_vars

\* A description of one of the components that call their dispatch handle.
CallEl(type, hasDeps, deps, cl, kids) ==
    [CompEl(NoKey, hasDeps, deps, cl, kids) EXCEPT !.type = type]

\* A component that calls its dispatch handle while it renders, mounted after
\* another tree was committed, and followed by a sibling.
CallRenderDescs ==
    {Span, Div("", <<CallEl("CallInRender", FALSE, <<>>, FALSE, <<Span>>), Span>>)}

InitCallRender == InitWith(CallRenderDescs, {Inc})
SpecCallRender == InitCallRender /\ [][Next]_vars

\* A component whose effect cleanup calls its dispatch handle, and a tree of
\* another type, with a component that has an effect, that replaces it.
CallCleanupDescs ==
    {CallEl("CallInCleanup", TRUE, <<>>, TRUE, <<Span>>),
     Div("", <<CompEl(NoKey, TRUE, <<>>, FALSE, <<Span>>)>>)}

InitCallCleanup == InitWith(CallCleanupDescs, {Inc})
SpecCallCleanup == InitCallCleanup /\ [][Next]_vars

\* A component whose effect body calls its dispatch handle, followed by a
\* component whose effect is queued behind it.
CallEffectDescs ==
    {Div("", <<CallEl("CallInEffect", TRUE, <<>>, FALSE, <<>>),
                     CompEl(NoKey, TRUE, <<>>, FALSE, <<>>)>>)}

InitCallEffect == InitWith(CallEffectDescs, {Inc})
SpecCallEffect == InitCallEffect /\ [][Next]_vars

\* ------------------------------------------------ vocabulary of the claims

\* The fibers of the tree hanging from fiber f through child and sibling links.
RECURSIVE Tree(_)
Tree(f) ==
    IF f = Null THEN {}
    ELSE {f} \cup Tree(fibers[f].child) \cup Tree(fibers[f].sibling)

\* The fibers of the subtree of f: f and everything below it.
Subtree(f) == {f} \cup Tree(fibers[f].child)

\* The child fibers of f, in order.
RECURSIVE Children(_)
Children(o) == IF o = Null THEN <<>> ELSE <<o>> \o Children(fibers[o].sibling)

Kids(f) == Children(fibers[f].child)

\* The tree of the pass in flight or, when none is, of the pass just committed.
LiveTree ==
    IF wipRoot # Null THEN Tree(wipRoot)
    ELSE IF curRoot # Null THEN Tree(curRoot)
    ELSE {}

\* A commit has happened and no pass has been started since.
Committed == wipRoot = Null /\ curRoot # Null

\* The child descriptions fiber f is reconciled with.
Elements(f) ==
    IF IsFunction(fibers[f].type) THEN SelectSeq(fibers[f].props.children, LAMBDA e : e # NullEl)
    ELSE fibers[f].props.children

\* The first render of the call site that fiber f renders again.
RECURSIVE Origin(_)
Origin(f) == IF fibers[f].alternate = Null THEN f ELSE Origin(fibers[f].alternate)

\* The actions applied one after the other, first to last.
RECURSIVE InOrder(_, _)
InOrder(value, actions) ==
    IF actions = <<>> THEN value
    ELSE InOrder(IF Head(actions).isFn
                 THEN (IF Head(actions).v = 1 THEN value + 1 ELSE value * 2)
                 ELSE Head(actions).v,
                 Tail(actions))

StateHooks == {<<f, i>> \in (1..Len(fibers)) \X (1..2) :
                  i <= Len(fibers[f].hooks) /\ fibers[f].hooks[i].kind = "state"}

EffectHooks == {<<f, i>> \in (1..Len(fibers)) \X (1..2) :
                  i <= Len(fibers[f].hooks) /\ fibers[f].hooks[i].kind = "effect"}

\* ------------------------------------------------------------------ C1
\* C1: a trigger that replaces a pass in flight loses no state action.  After
\* every commit, the value of each state cell of the committed tree is the fold,
\* in enqueue order from the initial value 0, of every action ever dispatched
\* to the cell except those still waiting in its queue.
C1_NoActionLost ==
    Committed =>
        \A fi \in StateHooks :
            fi[1] \in Tree(curRoot) =>
                LET hook == fibers[fi[1]].hooks[fi[2]]
                    all == hist[hook.cell].all
                    waiting == Len(cells[hook.cell].queue)
                IN  /\ waiting <= Len(all)
                    /\ hook.state = InOrder(0, SubSeq(all, 1, Len(all) - waiting))

\* ------------------------------------------------------------------ C2
\* C2: every render of a state cell returns the previous value of the cell
\* folded over the actions dispatched since its previous render, first
\* dispatched first, and leaves the queue empty: the queue always holds exactly
\* the actions dispatched since the last render.
C2_RenderFoldsFifo ==
    \A c \in 1..Len(cells) :
        /\ hist[c].renders > 0 => hist[c].got = InOrder(hist[c].prev, hist[c].drained)
        /\ cells[c].queue = hist[c].since

\* Initial value 0 and three dispatches of x => x + 1 before the next render
\* gave 3.
C2_Witness ==
    \E c \in 1..Len(cells) :
        /\ hist[c].drained = <<Inc, Inc, Inc>>
        /\ hist[c].prev = 0
        /\ hist[c].got = 3
        /\ cells[c].queue = <<>>

\* ------------------------------------------------------------------ C3
\* C3: at most one scheduler callback is pending, and one is pending exactly
\* when the scheduled flag is set.
C3_OneCallback ==
    /\ callbacks \in {0, 1}
    /\ scheduled <=> callbacks = 1

\* Two calls of render(), hence of scheduleWork(), with no unit of work done
\* yet, and one callback pending.
C3_Witness ==
    /\ nRender = 2
    /\ Len(fibers) = 2
    /\ callbacks = 1

\* ------------------------------------------------------------------ C4
\* Fiber p is reconciled with a list of keyed descriptions that is a
\* permutation of the list its previous fiber was reconciled with: all keys
\* present and distinct, the same keys with the same types.
PermutedKeyed(p) ==
    LET news == Elements(p)
        olds == Elements(fibers[p].alternate)
    IN  /\ fibers[p].worked
        /\ fibers[p].alternate # Null
        /\ Len(news) = Len(olds)
        /\ \A i \in 1..Len(news) : news[i].key # NoKey /\ olds[i].key # NoKey
        /\ \A i, j \in 1..Len(olds) : olds[i].key = olds[j].key => i = j
        /\ \A i \in 1..Len(news) :
               \E j \in 1..Len(olds) :
                   olds[j].key = news[i].key /\ olds[j].type = news[i].type

\* The previous child fiber of p's previous fiber that carries the key.
OldWithKey(p, key) ==
    CHOOSE o \in {Kids(fibers[p].alternate)[j] : j \in 1..Len(Kids(fibers[p].alternate))} :
        fibers[o].props.key = key

\* C4: a re-render that only permutes keyed descriptions of unchanged types
\* gives every item an Update fiber whose alternate is the previous fiber of the
\* same key and whose output node is that fiber's node; no previous child is
\* put on the deletions list and no output node is created.
C4_PermutationUpdates ==
    \A p \in LiveTree :
        PermutedKeyed(p) =>
            /\ Len(Kids(p)) = Len(Elements(p))
            /\ \A i \in 1..Len(Kids(p)) :
                   LET n == fibers[Kids(p)[i]]
                       old == OldWithKey(p, Elements(p)[i].key)
                   IN  /\ n.effectTag = UPDATE
                       /\ n.alternate = old
                       /\ n.dom = fibers[old].dom
                       /\ n.dom # Null
                       /\ n.props = Elements(p)[i]
            /\ \A j \in 1..Len(Kids(fibers[p].alternate)) :
                   \A d \in 1..Len(deletions) :
                       deletions[d] # Kids(fibers[p].alternate)[j]

\* A keyed list was re-rendered with its first item moved.
C4_Witness ==
    \E p \in LiveTree :
        /\ PermutedKeyed(p)
        /\ Len(Elements(p)) >= 2
        /\ Elements(p)[1].key # Elements(fibers[p].alternate)[1].key
        /\ \A i \in 1..Len(Kids(p)) : fibers[Kids(p)[i]].worked

\* ------------------------------------------------------------------ C5
\* C5: after the commit of a re-render that reorders keyed children, the
\* output nodes under the parent's output node are in the order of the new
\* descriptions.
C5_OutputOrderFollowsKeys ==
    Committed =>
        \A p \in Tree(curRoot) :
            (PermutedKeyed(p) /\ fibers[p].dom # Null
                /\ \A i \in 1..Len(Kids(p)) : fibers[Kids(p)[i]].dom # Null) =>
                domKids[fibers[p].dom] = [i \in 1..Len(Kids(p)) |-> fibers[Kids(p)[i]].dom]

\* ------------------------------------------------------------------ C6
\* The root of the tree fiber f belongs to.
RECURSIVE RootOf(_)
RootOf(f) == IF fibers[f].parent = Null THEN f ELSE RootOf(fibers[f].parent)

\* C6: re-rendering a mounted tree with an identical description tags every
\* fiber below the root Update and deletes nothing.
C6_RoundTripOnlyUpdates ==
    \A p \in LiveTree :
        LET root == RootOf(p) IN
        (/\ fibers[p].worked
         /\ fibers[root].alternate # Null
         /\ fibers[root].props = fibers[fibers[root].alternate].props) =>
            /\ \A i \in 1..Len(Kids(p)) : fibers[Kids(p)[i]].effectTag = UPDATE
            /\ deletions = <<>>

\* ------------------------------------------------------------------ C7
\* The runs of effect bodies, as positions in the log.
EffectRuns == {j \in 1..Len(log) : log[j].ev = "effect"}

\* Runs j and k are runs of the effect of one call site: the same hook index
\* of fibers that render the same call site.
SameSite(j, k) == log[j].i = log[k].i /\ Origin(log[j].f) = Origin(log[k].f)

\* Run j returned a cleanup function, named by the run's number.
Returned(j) == fibers[log[j].f].props.cl

\* Run j is the run of its call site before run k.
PreviousRun(j, k) ==
    /\ j < k
    /\ SameSite(j, k)
    /\ \A l \in EffectRuns : (j < l /\ l < k) => ~SameSite(j, l)

\* The last run of the effect of hook i of fiber f, or 0.
LastRun(f, i) ==
    LET runs == {j \in EffectRuns : log[j].i = i /\ Origin(log[j].f) = Origin(f)}
    IN  IF runs = {} THEN 0 ELSE CHOOSE j \in runs : \A l \in runs : l <= j

\* C7: when an effect runs again, the cleanup its previous run returned is
\* invoked just before the new body, and only then; and the effect cells of the
\* committed tree hold the cleanup returned by the last run of their effect.
C7_CleanupBeforeEffect ==
    /\ \A j, k \in EffectRuns :
           (PreviousRun(j, k) /\ Returned(j)) =>
               /\ log[k - 1].ev = "cleanup"
               /\ log[k - 1].h = log[j].h
               /\ \A l \in j..(k - 2) : ~(log[l].ev = "cleanup" /\ log[l].h = log[j].h)
    /\ Committed =>
           \A fi \in EffectHooks :
               fi[1] \in Tree(curRoot) =>
                   LET last == LastRun(fi[1], fi[2])
                   IN  /\ last # 0
                       /\ fibers[fi[1]].hooks[fi[2]].cleanup =
                              IF Returned(last) THEN log[last].h ELSE Null

\* An effect ran again because its dependency changed between two committed
\* renders, after the cleanup of its previous run.
C7_Witness ==
    \E j, k \in EffectRuns :
        /\ PreviousRun(j, k)
        /\ Returned(j)
        /\ log[k].f \in Tree(curRoot)
        /\ fibers[log[k].f].alternate = log[j].f
        /\ fibers[log[k].f].hooks[log[k].i].hasDeps
        /\ fibers[log[j].f].hooks[log[j].i].hasDeps
        /\ fibers[log[k].f].hooks[log[k].i].deps # fibers[log[j].f].hooks[log[j].i].deps
        /\ log[k - 1].ev = "cleanup"
        /\ log[k - 1].h = log[j].h
        /\ log[k - 1].f = log[k].f
        /\ log[k - 1].i = log[k].i
        /\ fibers[log[k].f].hooks[log[k].i].cleanup = log[k].h

\* ------------------------------------------------------------------ C8
\* The number of times the cleanup function h has been invoked.
Invocations(h) == Cardinality({j \in 1..Len(log) : log[j].ev = "cleanup" /\ log[j].h = h})

\* C8: the commit that removes a fiber invokes, exactly once, the cleanup of
\* every effect cell of the removed subtree: of the fiber and of every fiber
\* below it.
C8_DeletedSubtreeCleaned ==
    Committed =>
        \A d \in 1..Len(deletions) :
            \A g \in Subtree(deletions[d]) :
                \A i \in 1..Len(fibers[g].hooks) :
                    fibers[g].hooks[i].cleanup # Null =>
                        Invocations(fibers[g].hooks[i].cleanup) = 1

\* ------------------------------------------------------------------ C9
\* Hook i of fiber f is an effect whose dependency list has the elements of the
\* list of the previous render of the fiber.
SameDeps(f, i) ==
    LET a == fibers[f].alternate
    IN  /\ a # Null
        /\ i <= Len(fibers[a].hooks)
        /\ fibers[f].hooks[i].hasDeps
        /\ fibers[a].hooks[i].hasDeps
        /\ fibers[f].hooks[i].deps = fibers[a].hooks[i].deps

\* C9: a committed re-render of an effect with unchanged dependencies runs
\* neither the body nor the cleanup, and the cell keeps the cleanup it had.
C9_UnchangedDepsNoRun ==
    \A fi \in EffectHooks :
        (fi[1] \in Tree(curRoot) /\ SameDeps(fi[1], fi[2])) =>
            LET hook == fibers[fi[1]].hooks[fi[2]]
                old == fibers[fibers[fi[1]].alternate].hooks[fi[2]]
            IN  /\ \A j \in EffectRuns : ~(log[j].f = fi[1] /\ log[j].i = fi[2])
                /\ hook.cleanup = old.cleanup
                /\ hook.cleanup # Null => Invocations(hook.cleanup) = 0

\* A committed re-render with the dependency list of the render before it, of
\* an effect that holds a cleanup.
C9_Witness ==
    \E fi \in EffectHooks :
        /\ fi[1] \in Tree(curRoot)
        /\ SameDeps(fi[1], fi[2])
        /\ fibers[fi[1]].hooks[fi[2]].cleanup # Null
        /\ Committed

\* ----------------------------------------------------------------- C10
\* C10: every call of a dispatch handle enqueues its action and starts a render
\* cycle: after the call a work-in-progress root exists, the cursor is on it
\* and a scheduler callback is pending.
C10_DispatchStartsCycle ==
    [][(nTrigger' = nTrigger + 1 /\ nRender' = nRender) =>
          /\ wipRoot' # Null
          /\ nextUnit' = wipRoot'
          /\ callbacks' = 1]_vars

\* ----------------------------------------------------------------- C11
\* A step is a call of a dispatch handle.
DispatchStep == nTrigger' = nTrigger + 1 /\ nRender' = nRender

\* C11: a call of a dispatch handle appends one action to the queue of one cell
\* and touches, besides that, only the bookkeeping of the scheduler and of the
\* pass in flight.  The committed root, every fiber that exists (its hooks and
\* their state values included), the output tree, the queued effects and the
\* record of the effects run are what they were before the call.
C11_DispatchFrame ==
    [][DispatchStep =>
          /\ curRoot' = curRoot
          /\ \A f \in 1..Len(fibers) : fibers'[f] = fibers[f]
          /\ domKids' = domKids
          /\ domCls' = domCls
          /\ pendingEffects' = pendingEffects
          /\ log' = log
          /\ \E c \in 1..Len(cells) : \E a \in universe.actions :
                 cells' = [cells EXCEPT ![c].queue = Append(@, a)]]_vars

\* A handle was called on a committed tree: its action waits in the queue, a
\* fresh pass is about to start, and the committed state value is not the
\* value the action produces.
C11_Witness ==
    /\ curRoot # Null
    /\ wipRoot # Null
    /\ nextUnit = wipRoot
    /\ \E fi \in StateHooks :
           LET hook == fibers[fi[1]].hooks[fi[2]]
           IN  /\ fi[1] \in Tree(curRoot)
               /\ cells[hook.cell].queue # <<>>
               /\ hook.state # InOrder(hook.state, cells[hook.cell].queue)

\* ----------------------------------------------------------------- C12
\* The fibers whose component has called useRef, and the box it returned.
RefFibers == {f \in 1..Len(fibers) : Len(fibers[f].hooks) = 2 /\ fibers[f].hooks[2].kind = "ref"}

BoxOf(f) == fibers[f].hooks[2].box

\* C12: a render of a fiber paired by an Update match with a previous fiber
\* gets from useRef the box the previous fiber got, and reads from it at least
\* what that render wrote.  Every write to a box is kept: the renders that used
\* a box read from it, one after the other, the counts 0, 1, 2, ... that the
\* render before wrote, and the box holds the number of those renders.
C12_RefIdentity ==
    /\ \A f \in RefFibers :
           fibers[f].alternate # Null =>
               /\ fibers[f].alternate \in RefFibers
               /\ BoxOf(f) = BoxOf(fibers[f].alternate)
               /\ fibers[f].seen >= fibers[fibers[f].alternate].seen + 1
    /\ \A b \in 1..Len(refs) :
           LET users == {f \in RefFibers : BoxOf(f) = b}
           IN  /\ Cardinality(users) = refs[b]
               /\ {fibers[f].seen : f \in users} = 0..(refs[b] - 1)

\* Three committed renders of one call site, the third reading the 2 that the
\* second wrote to the box of the first.
C12_Witness ==
    /\ Committed
    /\ \E f \in RefFibers :
           LET a == fibers[f].alternate
           IN  /\ f \in Tree(curRoot)
               /\ a # Null
               /\ fibers[a].alternate # Null
               /\ BoxOf(f) = BoxOf(fibers[a].alternate)
               /\ fibers[fibers[a].alternate].seen = 0
               /\ fibers[f].seen = 2
               /\ refs[BoxOf(f)] = 3

\* ----------------------------------------------------------------- C13
\* C13: every render of a state cell, of a pass that commits or of one that is
\* discarded, returns one and the same dispatch handle, the one the cell holds;
\* and the handles of different cells are different functions.
C13_HandleStable ==
    /\ \A c \in 1..Len(cells) : hist[c].handles = {cells[c].dispatch}
    /\ \A c, d \in 1..Len(cells) : cells[c].dispatch = cells[d].dispatch => c = d

\* A cell rendered three times, of which two renders are in the committed
\* lineage and one belongs to a pass that was discarded.
C13_Witness ==
    /\ Committed
    /\ \E fi \in StateHooks :
           LET hook == fibers[fi[1]].hooks[fi[2]]
               a == fibers[fi[1]].alternate
           IN  /\ fi[1] \in Tree(curRoot)
               /\ a # Null
               /\ fibers[a].alternate = Null
               /\ hist[hook.cell].renders = 3
               /\ cells[hook.cell].dispatch = a

\* ----------------------------------------------------------------- C14
\* The fibers of the tree of f in depth-first pre-order: a fiber, then the
\* subtree of its first child, then its next sibling.
RECURSIVE PreOrder(_)
PreOrder(f) ==
    IF f = Null THEN <<>>
    ELSE <<f>> \o PreOrder(fibers[f].child) \o PreOrder(fibers[f].sibling)

\* C14: at every yield of a pass the fibers worked on so far are, in order,
\* the first fibers of the pre-order of the work-in-progress tree, each once,
\* the cursor is on the fiber that follows them, and exactly they are done;
\* and the fibers a committed pass worked on are the pre-order of its tree,
\* whatever the yields were.
C14_PreOrderOnce ==
    /\ \A i, j \in 1..Len(trace) : trace[i] = trace[j] => i = j
    /\ wipRoot # Null =>
           LET order == PreOrder(wipRoot)
           IN  /\ Len(trace) < Len(order)
               /\ trace = SubSeq(order, 1, Len(trace))
               /\ nextUnit = order[Len(trace) + 1]
               /\ \A f \in Tree(wipRoot) :
                      fibers[f].worked <=> \E i \in 1..Len(trace) : trace[i] = f
    /\ Committed => trace = PreOrder(curRoot)

\* A pass has yielded after five units, and resumes at a sibling of an
\* ancestor of the fiber it did last.
C14_Witness ==
    /\ wipRoot # Null
    /\ Len(trace) >= 5
    /\ nextUnit # Null
    /\ LET last == trace[Len(trace)]
       IN  /\ fibers[last].child = Null
           /\ fibers[last].sibling = Null
           /\ fibers[nextUnit].parent # fibers[last].parent

\* ----------------------------------------------------------------- C15
\* C15: a call of render or of a dispatch handle while a pass is in flight
\* replaces the work-in-progress root by a fresh root, whose alternate is the
\* committed root and whose container is that root's container, puts the
\* cursor on it, empties the deletions list and leaves a callback pending; and
\* the committed tree never holds a fiber of another pass.
C15_TriggerReplaces ==
    /\ [][(nTrigger' = nTrigger + 1 /\ wipRoot # Null) =>
             /\ Len(fibers') = Len(fibers) + 1
             /\ wipRoot' = Len(fibers')
             /\ fibers'[wipRoot'].alternate = curRoot
             /\ fibers'[wipRoot'].child = Null
             /\ curRoot # Null => fibers'[wipRoot'].dom = fibers[curRoot].dom
             /\ nextUnit' = wipRoot'
             /\ deletions' = <<>>
             /\ callbacks' = 1]_vars
    /\ [](\A f \in Tree(curRoot) : RootOf(f) = curRoot)

\* ----------------------------------------------------------------- C16
\* The operations of the last commit on output nodes, as positions in ops: a
\* commit runs with the cursor at null, a unit of work with the cursor on it.
CommitOps == {i \in 1..Len(ops) : ops[i].next = Null}

\* C16: in a commit, no removal of an output node comes after an append or a
\* patch; and the commit removes the node of every fiber on the deletions list.
C16_DeletionsFirst ==
    /\ \A i, j \in CommitOps :
           (i < j /\ ops[i].op \in {"append", "patch"}) => ops[j].op # "remove"
    /\ Committed =>
           \A d \in 1..Len(deletions) :
               LET f == FirstWithDom(fibers, deletions[d])
               IN  f # Null =>
                       \E i \in CommitOps : ops[i] = [op |-> "remove", node |-> fibers[f].dom,
                                                      next |-> Null]

\* A commit that removed a node, appended one and patched one.
C16_Witness ==
    /\ Committed
    /\ deletions # <<>>
    /\ \E i, j, k \in CommitOps :
           /\ ops[i].op = "remove"
           /\ ops[j].op = "append"
           /\ ops[k].op = "patch"
           /\ i < j
           /\ i < k

\* ----------------------------------------------------------------- C17
\* C17: no effect body and no cleanup runs while the cursor is on a unit of
\* work; an effect body runs when no pass is in flight and the root of the tree
\* of its fiber is the committed root, so after the commit of its own pass and
\* of no other; and between two callbacks no effect is left queued.
C17_EffectsAfterCommit ==
    /\ \A j \in 1..Len(log) : log[j].next = Null
    /\ \A j \in EffectRuns :
           /\ log[j].wip = Null
           /\ log[j].cur = RootOf(log[j].f)
    /\ pendingEffects = <<>>

\* A pass that had queued an effect was discarded, its effect has not run, and
\* the pass that replaced it has committed and run its own.
C17_Witness ==
    /\ Committed
    /\ \E g \in 1..Len(fibers) :
           /\ fibers[g].pend # <<>>
           /\ RootOf(g) # curRoot
           /\ \A j \in EffectRuns : log[j].f # g
    /\ \E j \in EffectRuns : log[j].cur = curRoot

\* ----------------------------------------------------------------- C18
\* The fibers whose component has read a context.
Readers == {f \in 1..Len(fibers) : fibers[f].type \in {"ReaderA", "ReaderB"} /\ fibers[f].worked}

\* The context a fiber's component provides or reads.
ContextOf(f) == IF fibers[f].type \in {"ProviderA", "ReaderA"} THEN "A" ELSE "B"

\* The nearest fiber, from f upwards, that is a provider of context id.
RECURSIVE NearestProvider(_, _)
NearestProvider(f, id) ==
    IF f = Null THEN Null
    ELSE IF fibers[f].type \in {"ProviderA", "ProviderB"} /\ ContextOf(f) = id THEN f
    ELSE NearestProvider(fibers[f].parent, id)

\* C18: a reader gets the value of the nearest provider of its context among
\* its ancestors, and the default value of the context (10 for A, 20 for B)
\* when no ancestor provides it.
C18_NearestProvider ==
    \A f \in Readers :
        LET p == NearestProvider(fibers[f].parent, ContextOf(f))
        IN  fibers[f].seen = IF p # Null THEN fibers[p].props.value
                             ELSE IF ContextOf(f) = "A" THEN 10 ELSE 20

\* A committed tree with a reader below two nested providers of its context
\* that give different values, a reader below the outer one only, a reader
\* below another provider of the context in a disjoint subtree, and, in some
\* tree so far, a reader under no provider of its context.
C18_Witness ==
    /\ Committed
    /\ \E f, g, h \in Readers \cap Tree(curRoot) :
           LET pf == NearestProvider(fibers[f].parent, ContextOf(f))
               pg == NearestProvider(fibers[g].parent, ContextOf(g))
               ph == NearestProvider(fibers[h].parent, ContextOf(h))
           IN  /\ pf # Null /\ pg # Null /\ ph # Null
               /\ ContextOf(f) = ContextOf(g) /\ ContextOf(g) = ContextOf(h)
               /\ NearestProvider(fibers[pf].parent, ContextOf(f)) = pg
               /\ NearestProvider(fibers[ph].parent, ContextOf(h)) = Null
               /\ fibers[pf].props.value # fibers[pg].props.value
               /\ fibers[ph].props.value # fibers[pg].props.value
               /\ fibers[f].seen = fibers[pf].props.value
               /\ fibers[g].seen = fibers[pg].props.value
               /\ fibers[h].seen = fibers[ph].props.value
    /\ \E f \in Readers : NearestProvider(fibers[f].parent, ContextOf(f)) = Null

\* ----------------------------------------------------------------- C19
\* The fibers on which the lazy wrapper has returned.
LazyDone == {f \in 1..Len(fibers) : fibers[f].type = "Lazy" /\ fibers[f].worked}

\* C19: the factory is called once in all; every throw of the wrapper throws
\* the one thenable of that call, and happens while the module is pending; and
\* a call of the wrapper that returns has returned a description of the
\* resolved component with the props the wrapper was given.
C19_LazyOnce ==
    /\ lazy.calls = 1
    /\ \A j \in 1..Len(throws) :
           /\ throws[j].value = Thenable(1)
           /\ throws[j].status = "pending"
    /\ \A f \in LazyDone :
           /\ Len(Kids(f)) = 1
           /\ fibers[Kids(f)[1]].type = "Comp"
           /\ fibers[Kids(f)[1]].props = [fibers[f].props EXCEPT !.type = "Comp"]

\* ----------------------------------------------------------------- C20
\* A step in which a component threw: the exception left the idle callback.
ThrowStep == Len(throws') = Len(throws) + 1

\* C20: a callback in which a component throws commits nothing and runs no
\* effect: the committed root, the work-in-progress root and every output node
\* that existed are as before; the cursor is left on the fiber whose component
\* threw, which is not done; and no callback is pending, so nothing runs until
\* a new trigger.  A committed tree never holds a fiber that is not done.
C20_ThrowStalls ==
    /\ [][ThrowStep =>
             /\ curRoot' = curRoot
             /\ wipRoot' = wipRoot
             /\ wipRoot' # Null
             /\ \A n \in 1..Len(domKids) : domKids'[n] = domKids[n] /\ domCls'[n] = domCls[n]
             /\ log' = log
             /\ nextUnit' # Null
             /\ nextUnit' = throws'[Len(throws')].fiber
             /\ fibers'[nextUnit'].type \in {"Boom", "Lazy"}
             /\ fibers'[nextUnit'].type = "Boom" => fibers'[nextUnit'].props.value # 0
             /\ ~fibers'[nextUnit'].worked
             /\ callbacks' = 0
             /\ ~scheduled']_vars
    /\ [](\A f \in Tree(curRoot) : fibers[f].worked)

\* A re-render of a committed tree has stopped at a throwing component after
\* doing other units: the pass is stalled with no callback pending.
C20_Witness ==
    /\ throws # <<>>
    /\ curRoot # Null
    /\ wipRoot # Null
    /\ callbacks = 0
    /\ Len(trace) >= 3
    /\ nextUnit = trace[Len(trace)]
    /\ fibers[nextUnit].type = "Boom"
    /\ ~fibers[nextUnit].worked
    /\ fibers[wipRoot].worked

\* ---------------------------------------------------------------- C21

\* The root fiber of the latest pass that was started.
LastRoot ==
    CHOOSE r \in {f \in 1..Len(fibers) : fibers[f].type = "root"} :
        \A f \in 1..Len(fibers) : fibers[f].type = "root" => f <= r

Idle == wipRoot = Null /\ nextUnit = Null /\ callbacks = 0

\* C21: when every pending callback eventually fires with time for at least
\* one unit, and no component throws, then once the triggers have ceased the
\* latest pass is walked to its end and committed: from some moment on there
\* is no work-in-progress root, no next unit and no pending callback, the
\* committed tree is the one of the latest pass and every fiber of it is
\* done.  A pass is committed at most once: the committed root changes only
\* to the work-in-progress root, which is cleared in the same step.
C21_PassCompletes ==
    /\ <>[](/\ Idle
            /\ fibers # <<>> =>
                  /\ curRoot = LastRoot
                  /\ \A f \in Tree(curRoot) : fibers[f].worked)
    /\ [][curRoot' # curRoot =>
             wipRoot # Null /\ curRoot' = wipRoot /\ wipRoot' = Null]_vars

\* A tree of more fibers than one callback has time for was committed, and
\* nothing is left to do.
C21_Witness ==
    /\ Idle
    /\ curRoot # Null
    /\ curRoot = LastRoot
    /\ Cardinality(Tree(curRoot)) > MaxBudget + 1
    /\ nTrigger > 1

\* ---------------------------------------------------------------- C22

\* The previous children of the fiber p is reconciled against.
Olds(p) == IF fibers[p].alternate = Null THEN <<>> ELSE Kids(fibers[p].alternate)

Keyed(f) == fibers[f].props.key # NoKey

\* The previous child that the i-th new child of p is looked up to: for a
\* description with a key, the previous child that the key map holds for the
\* key (the last one carrying it), unless an earlier description took it; for
\* a description without a key, the previous child without a key at the same
\* rank among the children without a key.  Null when there is none.
Found(p, i) ==
    LET news == Kids(p)
        olds == Olds(p)
        key == fibers[news[i]].props.key
    IN  IF Keyed(news[i])
        THEN LET with == {j \in 1..Len(olds) : fibers[olds[j]].props.key = key}
             IN  IF with = {} \/ \E h \in 1..(i - 1) : fibers[news[h]].props.key = key
                 THEN Null
                 ELSE olds[CHOOSE j \in with : \A k \in with : k <= j]
        ELSE LET rank == Cardinality({h \in 1..i : ~Keyed(news[h])})
                 loose == SelectSeq(olds, LAMBDA o : ~Keyed(o))
             IN  IF rank <= Len(loose) THEN loose[rank] ELSE Null

Compatible(p, i) ==
    /\ Found(p, i) # Null
    /\ fibers[Found(p, i)].type = fibers[Kids(p)[i]].props.type

InDeletions(o) == \E d \in 1..Len(deletions) : deletions[d] = o

\* C22: each new child of a reconciled fiber is paired with the previous
\* child found by its key, or by its rank among the children without a key.
\* When one was found and has the type of the description, the new fiber is
\* an Update with the previous fiber's type and output node and with the
\* previous fiber as alternate.  Otherwise it is a Placement with the
\* description's type, no alternate and, until work is done on it, no output
\* node, and a previous fiber that was found is marked Deletion and is in the
\* deletions list.
C22_Pairing ==
    \A p \in LiveTree :
        fibers[p].worked =>
            \A i \in 1..Len(Kids(p)) :
                LET n == fibers[Kids(p)[i]]
                    old == Found(p, i)
                IN  IF Compatible(p, i)
                    THEN /\ n.effectTag = UPDATE
                         /\ n.alternate = old
                         /\ n.dom = fibers[old].dom
                         /\ n.type = fibers[old].type
                    ELSE /\ n.effectTag = PLACEMENT
                         /\ n.alternate = Null
                         /\ n.type = n.props.type
                         /\ ~n.worked => n.dom = Null
                         /\ old # Null =>
                                fibers[old].effectTag = DELETION /\ InDeletions(old)

\* One list was reconciled in which a description with a key found a previous
\* child of its type, another found one of another type, a description
\* without a key found a previous child of its type, and another found none.
C22_Witness ==
    \E p \in LiveTree :
        /\ fibers[p].worked
        /\ \E i \in 1..Len(Kids(p)) : Keyed(Kids(p)[i]) /\ Compatible(p, i)
        /\ \E i \in 1..Len(Kids(p)) :
               Keyed(Kids(p)[i]) /\ Found(p, i) # Null /\ ~Compatible(p, i)
        /\ \E i \in 1..Len(Kids(p)) : ~Keyed(Kids(p)[i]) /\ Compatible(p, i)
        /\ \E i \in 1..Len(Kids(p)) : ~Keyed(Kids(p)[i]) /\ Found(p, i) = Null

\* ---------------------------------------------------------------- C23

\* The new children of p that have previous fiber o as alternate.
PairedWith(p, o) ==
    {i \in 1..Len(Kids(p)) :
        fibers[Kids(p)[i]].alternate = o /\ fibers[Kids(p)[i]].effectTag = UPDATE}

\* C23: once a fiber is reconciled, each previous child is either the
\* alternate of exactly one new Update child, or the alternate of none and
\* then marked Deletion and in the deletions list.
C23_EveryOldAccounted ==
    \A p \in LiveTree :
        fibers[p].worked =>
            \A j \in 1..Len(Olds(p)) :
                LET o == Olds(p)[j]
                IN  \/ Cardinality(PairedWith(p, o)) = 1 /\ ~InDeletions(o)
                    \/ /\ PairedWith(p, o) = {}
                       /\ fibers[o].effectTag = DELETION
                       /\ InDeletions(o)

\* ---------------------------------------------------------------- C24

\* The children without a key among a sequence of fibers, in order.
Loose(seq) == SelectSeq(seq, LAMBDA o : ~Keyed(o))

\* C24: the i-th new child without a key is paired with the i-th previous
\* child without a key, whatever children with keys stand between them and
\* whatever became of the pairs before it: an Update of that fiber when the
\* types agree, a Placement (and that fiber marked Deletion) when they do
\* not, and a Placement with no alternate when there is no i-th previous
\* child without a key.
C24_PositionalPairing ==
    \A p \in LiveTree :
        fibers[p].worked =>
            \A i \in 1..Len(Loose(Kids(p))) :
                LET n == fibers[Loose(Kids(p))[i]]
                IN  IF i <= Len(Loose(Olds(p)))
                    THEN LET o == Loose(Olds(p))[i]
                         IN  IF fibers[o].type = n.props.type
                             THEN n.alternate = o /\ n.effectTag = UPDATE
                             ELSE /\ n.alternate = Null
                                  /\ n.effectTag = PLACEMENT
                                  /\ fibers[o].effectTag = DELETION
                                  /\ InDeletions(o)
                    ELSE n.alternate = Null /\ n.effectTag = PLACEMENT

\* A list was reconciled whose first child without a key met a previous child
\* of another type, whose second one was paired all the same with the second
\* previous child without a key, and whose third one found no previous child;
\* children with keys stand among the new and among the previous children.
C24_Witness ==
    \E p \in LiveTree :
        /\ fibers[p].worked
        /\ Len(Loose(Kids(p))) = 3
        /\ Len(Loose(Olds(p))) = 2
        /\ fibers[Loose(Kids(p))[1]].alternate = Null
        /\ fibers[Loose(Kids(p))[2]].alternate = Loose(Olds(p))[2]
        /\ fibers[Loose(Kids(p))[3]].alternate = Null
        /\ \E i \in 1..Len(Kids(p)) : Keyed(Kids(p)[i])
        /\ \E j \in 1..Len(Olds(p)) : Keyed(Olds(p)[j])

\* ---------------------------------------------------------------- C25

\* The fibers of the tree of the committed root, none before the first commit.
CurrentTree == IF curRoot = Null THEN {} ELSE Tree(curRoot)

\* The fibers of the tree of the pass in flight.
WipTree == IF wipRoot = Null THEN {} ELSE Tree(wipRoot)

\* The root fibers of passes that were started after the last commit and
\* replaced by a later pass before they could commit.
DiscardedRoots ==
    {r \in 1..Len(fibers) :
        fibers[r].type = "root" /\ r > curRoot /\ r # wipRoot /\ wipRoot # Null}

\* C25: every fiber of the tree of the pass in flight has no alternate or one
\* in the tree of the committed root, which is no fiber of the pass's own tree
\* and no fiber of a pass that was replaced, and no two fibers of the pass
\* have the same alternate.
C25_AlternateInCurrent ==
    /\ \A f \in WipTree :
           fibers[f].alternate # Null =>
               /\ fibers[f].alternate \in CurrentTree
               /\ fibers[f].alternate \notin WipTree
               /\ RootOf(fibers[f].alternate) \notin DiscardedRoots
    /\ \A f, g \in WipTree :
           (fibers[f].alternate # Null /\ fibers[f].alternate = fibers[g].alternate) => f = g

\* A pass that follows a replaced pass has paired a fiber below its root with
\* a fiber of the committed tree.
C25_Witness ==
    /\ DiscardedRoots # {}
    /\ \E f \in WipTree : fibers[f].alternate # Null /\ fibers[f].parent # Null

\* ---------------------------------------------------------------- C26

\* The fibers of host elements, of any pass; the root fiber, which is given
\* the container, is not one of them.
HostFibers == {f \in 1..Len(fibers) : ~IsFunction(fibers[f].type) /\ fibers[f].type # "root"}

\* The host fibers that were made as Placements: the ones without alternate.
Placed == {f \in HostFibers : fibers[f].alternate = Null}

\* The output nodes other than the container.
Created == 2..Len(domKids)

\* C26: a fiber whose work is done owns one output node when it is a host
\* fiber and none when it is a function fiber, and two host fibers of one
\* tree own different nodes.  A Placement host fiber has a node exactly when
\* its work is done; the nodes of the Placements are pairwise different and
\* are all the nodes ever created, so that each unit of work on a Placement
\* creates one node and nothing else creates any.  An Update host fiber has
\* the node of its alternate.
C26_NodeOwnership ==
    /\ \A f \in 1..Len(fibers) :
           fibers[f].worked =>
               IF IsFunction(fibers[f].type) THEN fibers[f].dom = Null
               ELSE fibers[f].dom \in 1..Len(domKids)
    /\ \A f, g \in LiveTree \cap HostFibers :
           (fibers[f].worked /\ fibers[f].dom = fibers[g].dom) => f = g
    /\ \A f \in Placed : fibers[f].worked <=> fibers[f].dom # Null
    /\ \A f, g \in Placed : (fibers[f].worked /\ fibers[f].dom = fibers[g].dom) => f = g
    /\ Created = {fibers[f].dom : f \in {p \in Placed : fibers[p].worked}}
    /\ \A f \in HostFibers :
           fibers[f].alternate # Null => fibers[f].dom = fibers[fibers[f].alternate].dom

\* Work is done on an Update host fiber, on a Placement host fiber and on a
\* function fiber of one pass, and a fiber of that pass is still to do.
C26_Witness ==
    /\ wipRoot # Null
    /\ \E f \in WipTree \cap HostFibers : fibers[f].worked /\ fibers[f].alternate # Null
    /\ \E f \in WipTree \cap Placed : fibers[f].worked
    /\ \E f \in WipTree : ~fibers[f].worked /\ fibers[f].dom = Null
    /\ \E f \in WipTree : fibers[f].worked /\ IsFunction(fibers[f].type)

\* ---------------------------------------------------------------- C27

\* C27: after a commit, no fiber of the committed tree is marked Deletion,
\* is in the deletions list of that commit or lies below a fiber of that
\* list.
C27_DeletedNotPromoted ==
    Committed =>
        /\ \A f \in Tree(curRoot) : fibers[f].effectTag # DELETION
        /\ \A d \in 1..Len(deletions) : Subtree(deletions[d]) \cap Tree(curRoot) = {}

\* A commit has removed a fiber that has fibers below it.
C27_Witness ==
    /\ Committed
    /\ \E d \in 1..Len(deletions) : Subtree(deletions[d]) # {deletions[d]}
    /\ Cardinality(Tree(curRoot)) > 1

\* ---------------------------------------------------------------- C28

\* The output node of the nearest ancestor of f that is not a function fiber.
RECURSIVE HostAbove(_)
HostAbove(f) ==
    LET p == fibers[f].parent
    IN  IF IsFunction(fibers[p].type) THEN HostAbove(p) ELSE fibers[p].dom

\* The host fibers of the committed tree that the commit placed.
PlacedNow == {f \in Tree(curRoot) \cap HostFibers : fibers[f].effectTag = PLACEMENT}

\* The output nodes the commit placed under output node parent, in the order
\* in which the commit came to their fibers.
PlacedUnder(parent) ==
    LET order == SelectSeq(PreOrder(curRoot),
                           LAMBDA f : f \in PlacedNow /\ HostAbove(f) = parent)
    IN  [i \in 1..Len(order) |-> fibers[order[i]].dom]

\* C28: after a commit, the output nodes of the host fibers it placed are
\* children of the node of their nearest ancestor that is not a function
\* fiber, and they are the last children of that node, in the order of the
\* commit's walk: each was appended after all children the node had then.
C28_PlacementAppends ==
    Committed =>
        \A parent \in 1..Len(domKids) :
            LET placed == PlacedUnder(parent)
                kids == domKids[parent]
            IN  /\ Len(placed) <= Len(kids)
                /\ SubSeq(kids, Len(kids) - Len(placed) + 1, Len(kids)) = placed

\* A commit placed a host fiber below a function fiber, under the node of a
\* host fiber that the commit updated.
C28_Witness ==
    /\ Committed
    /\ \E f \in PlacedNow :
           /\ IsFunction(fibers[fibers[f].parent].type)
           /\ HostAbove(f) # Container
           /\ \E g \in Tree(curRoot) :
                  fibers[g].dom = HostAbove(f) /\ fibers[g].effectTag = UPDATE

\* ---------------------------------------------------------------- C29

\* The root fibers of the passes that were committed: the committed root and
\* the roots before it.
RECURSIVE RootsBefore(_)
RootsBefore(r) == IF r = Null THEN {} ELSE {r} \cup RootsBefore(fibers[r].alternate)

CommittedRoots == RootsBefore(curRoot)

\* C29: a reference box that holds an output node holds the node of a host
\* fiber that declares the box and belongs to a pass that was committed:
\* only commits write to reference boxes, and units of work of a pass that
\* has not committed, or never will, write to none.
C29_RefWiredAtCommit ==
    \A b \in 1..Len(refs) :
        refs[b] # Null =>
            \E f \in HostFibers :
                /\ RootOf(f) \in CommittedRoots
                /\ fibers[f].props.ref = b
                /\ fibers[f].dom = refs[b]

\* ---------------------------------------------------------------- C30

\* The providers: the fibers of a Provider component whose render is done.
Providers ==
    {f \in 1..Len(fibers) : fibers[f].type \in {"ProviderA", "ProviderB"} /\ fibers[f].worked}

\* What the contextMap fiber f refers to holds now.
MapOf(f) == IF fibers[f].contextMap = Null THEN NoMap ELSE maps[fibers[f].contextMap]

\* What fiber f is to see for context id: the value of the nearest provider of
\* id from its parent upwards, or that of f itself once f has provided it.
Visible(f, id) ==
    LET p == IF f \in Providers /\ ContextOf(f) = id THEN f
             ELSE NearestProvider(fibers[f].parent, id)
    IN  IF p = Null THEN NoEntry ELSE Entry(fibers[p].props.value)

\* C30: in every state the contextMap of every fiber, of any pass, holds for
\* every context the value of the nearest provider from the fiber's parent
\* upwards (and the fiber's own value once it has provided one): the render
\* of a provider changes what its descendants see and leaves what its
\* ancestors, its siblings and their subtrees see as it was.  The map object
\* of a provider is referred to by fibers of the provider's subtree only: it
\* is a copy, not the object the provider inherited.
C30_ProviderCopies ==
    /\ \A f \in 1..Len(fibers) : \A id \in CtxIds : MapOf(f)[id] = Visible(f, id)
    /\ \A p \in Providers :
           {g \in 1..Len(fibers) : fibers[g].contextMap = fibers[p].contextMap}
               \subseteq Subtree(p)

\* A provider rendered with an inherited map that holds another value of its
\* context; a fiber below it sees the provider's value, and a sibling rendered
\* after it shares the inherited map with the provider's parent and read the
\* other value from it.
C30_Witness ==
    \E p \in Providers :
        LET up == fibers[p].parent
            id == ContextOf(p)
        IN  /\ fibers[up].contextMap # Null
            /\ MapOf(up)[id].has
            /\ MapOf(up)[id].v # fibers[p].props.value
            /\ \E d \in Subtree(p) \ {p} : MapOf(d)[id] = Entry(fibers[p].props.value)
            /\ \E g \in Readers :
                   /\ fibers[g].parent = up
                   /\ g > p
                   /\ fibers[g].contextMap = fibers[up].contextMap
                   /\ ContextOf(g) = id
                   /\ fibers[g].seen = MapOf(up)[id].v

\* ---------------------------------------------------------------- C31

\* The hook of fiber f at index i has a dependency list that counts as
\* changed: the fiber has no previous fiber, or that one has no hook at i, or
\* the list is absent, or some element of it differs from the element at the
\* same place of the previous list (which an absent or shorter list has not).
Changed(f, i) ==
    LET a == fibers[f].alternate
        hook == fibers[f].hooks[i]
    IN  \/ a = Null
        \/ i > Len(fibers[a].hooks)
        \/ ~hook.hasDeps
        \/ \E k \in 1..Len(hook.deps) :
               \/ ~fibers[a].hooks[i].hasDeps
               \/ k > Len(fibers[a].hooks[i].deps)
               \/ hook.deps[k] # fibers[a].hooks[i].deps[k]

\* The hooks of useMemo and useCallback of rendered fibers.
MemoHooks ==
    {<<f, i>> \in (1..Len(fibers)) \X (1..3) :
        /\ fibers[f].worked
        /\ i <= Len(fibers[f].hooks)
        /\ fibers[f].hooks[i].kind = "memo"}

\* The calls of the factory of hook i in the render of fiber f, as places in
\* the log.
FactoryCalls(f, i) ==
    {j \in 1..Len(log) : log[j].ev = "factory" /\ log[j].f = f /\ log[j].i = i}

\* C31: a render calls the factory of a useMemo or useCallback hook once when
\* it is the first render of the call site or the dependencies changed, and
\* the value of the hook is what that call returned (for useCallback, the
\* function passed in this render); in every other render the factory is not
\* called and the value is the value of the previous fiber's hook.  useMemo
\* returns the value of the hook.
C31_MemoCached ==
    \A <<f, i>> \in MemoHooks :
        LET hook == fibers[f].hooks[i]
        IN  /\ IF Changed(f, i)
               THEN /\ Cardinality(FactoryCalls(f, i)) = 1
                    /\ \A j \in FactoryCalls(f, i) :
                           hook.state = IF i = 2 THEN log[j].h ELSE f
               ELSE /\ FactoryCalls(f, i) = {}
                    /\ hook.state = fibers[fibers[f].alternate].hooks[i].state
            /\ i = 2 => fibers[f].seen = hook.state

\* A committed third render of one call site that returned the object the
\* first render cached, and the callback of the first render, under a shorter
\* dependency list; a pass in between rendered the call site and was replaced.
C31_Witness ==
    /\ Committed
    /\ \E f \in Tree(curRoot) :
           LET a == fibers[f].alternate
           IN  /\ <<f, 2>> \in MemoHooks
               /\ a # Null
               /\ fibers[a].alternate # Null
               /\ ~Changed(f, 2)
               /\ ~Changed(a, 2)
               /\ Len(fibers[f].hooks[2].deps) < Len(fibers[fibers[a].alternate].hooks[2].deps)
               /\ fibers[f].seen = fibers[fibers[a].alternate].seen
               /\ fibers[f].hooks[3].state = fibers[a].alternate
               /\ \E g \in 1..Len(fibers) :
                      /\ g # a
                      /\ fibers[g].worked
                      /\ fibers[g].alternate = fibers[a].alternate

\* ---------------------------------------------------------------- C33

\* The effect hooks of rendered fibers.
RenderedEffects ==
    {<<f, i>> \in (1..Len(fibers)) \X (1..2) :
        /\ fibers[f].worked
        /\ i <= Len(fibers[f].hooks)
        /\ fibers[f].hooks[i].kind = "effect"}

\* The render of fiber f put the effect of its hook i in line to run: the
\* effect waits on the fiber, or waits in the global list, or has run.
Enqueued(f, i) ==
    \/ \E k \in 1..Len(fibers[f].pend) : fibers[f].pend[k].hookI = i
    \/ \E k \in 1..Len(pendingEffects) :
           pendingEffects[k].hookF = f /\ pendingEffects[k].hookI = i
    \/ \E j \in EffectRuns : log[j].f = f /\ log[j].i = i

\* C33: the render of a fiber enqueues the effect of a useEffect hook exactly
\* when the fiber has no previous hook at that index, or the dependency list
\* is absent, or some element of the list differs from the element at the
\* same index of the previous list, an absent or shorter previous list having
\* no element there.
C33_EffectDirty ==
    \A <<f, i>> \in RenderedEffects : Enqueued(f, i) <=> Changed(f, i)

\* One pass rendered a call site with a list that is a shorter beginning of
\* the previous list, and did not enqueue its effect, and a call site with a
\* list after an absent one, and enqueued its effect.
C33_Witness ==
    \E f, k \in {e[1] : e \in RenderedEffects} :
        LET old(x) == fibers[fibers[x].alternate].hooks[2]
            new(x) == fibers[x].hooks[2]
        IN  /\ fibers[f].alternate # Null
            /\ fibers[k].alternate # Null
            /\ RootOf(f) = RootOf(k)
            /\ new(f).hasDeps /\ old(f).hasDeps
            /\ Len(new(f).deps) = 1 /\ Len(old(f).deps) = 2
            /\ ~Enqueued(f, 2)
            /\ new(k).hasDeps /\ Len(new(k).deps) = 1 /\ ~old(k).hasDeps
            /\ Enqueued(k, 2)

\* ---------------------------------------------------------------- C34

\* The output nodes attached under node n, n included, when the children of
\* the nodes are kids.
RECURSIVE AttachedIn(_, _)
AttachedIn(kids, n) ==
    {n} \cup UNION {AttachedIn(kids, kids[n][i]) : i \in 1..Len(kids[n])}

\* The output tree attached to the container: the children and the class of
\* every attached node.
Shape(kids, cls) ==
    [n \in AttachedIn(kids, Container) |-> <<kids[n], cls[n]>>]

\* The operations on output nodes made by units of work since the last commit.
WorkOps == {i \in 1..Len(ops) : ops[i].next # Null}

\* C34: a step that commits nothing (the committed root stays the same: a
\* trigger, or a callback that performs units and yields) leaves the tree
\* attached to the container as it is; and every operation a unit of work
\* made on an output node since the last commit is the initialising patch of
\* a node that is not attached.
C34_OnlyCommitMutates ==
    /\ [][curRoot' = curRoot => Shape(domKids', domCls') = Shape(domKids, domCls)]_vars
    /\ [](\A i \in WorkOps :
              /\ ops[i].op = "patch"
              /\ ops[i].node \notin AttachedIn(domKids, Container))

\* After a commit, a later pass has done units on an Update host fiber whose
\* class changes and on a new host fiber, for which it created a node, it has
\* gathered a deletion, and it has replaced an earlier pass.
C34_Witness ==
    /\ curRoot # Null /\ wipRoot # Null /\ nextUnit # Null
    /\ Len(deletions) > 0
    /\ WorkOps # {}
    /\ fibers[wipRoot].alternate = curRoot
    /\ \E f \in WipTree \cap HostFibers :
           /\ fibers[f].worked /\ fibers[f].alternate # Null
           /\ fibers[f].props.cls # fibers[fibers[f].alternate].props.cls
           /\ domCls[fibers[f].dom] = fibers[fibers[f].alternate].props.cls
    /\ \E r \in 1..Len(fibers) :
           /\ fibers[r].type = "root" /\ r \notin {wipRoot} \cup CommittedRoots
           /\ fibers[r].child # Null

\* ---------------------------------------------------------------- C35

\* The output nodes of the host fibers of the committed tree whose nearest
\* ancestor with a node owns output node parent, in the pre-order of the tree.
OwnedUnder(parent) ==
    LET order == SelectSeq(PreOrder(curRoot),
                           LAMBDA f : f \in HostFibers /\ HostAbove(f) = parent)
    IN  [i \in 1..Len(order) |-> fibers[order[i]].dom]

\* C35: after a commit, the children of every attached output node that has
\* children are the nodes of the host fibers attached to it, in the pre-order
\* of the committed tree.
C35_OutputInTreeOrder ==
    Committed =>
        \A n \in AttachedIn(domKids, Container) :
            domKids[n] # <<>> => domKids[n] = OwnedUnder(n)

\* ---------------------------------------------------------------- C36

\* C36: after a commit, the output nodes attached under the container are
\* exactly the nodes of the host fibers of the committed tree.
C36_AttachedAreOwned ==
    Committed =>
        AttachedIn(domKids, Container) \ {Container}
            = {fibers[f].dom : f \in Tree(curRoot) \cap HostFibers}

\* ---------------------------------------------------------------- C37

\* C37: between callbacks, a cursor that is not null is on a fiber of the
\* tree of the work-in-progress root, and every fiber of the committed tree,
\* its root included, has been worked on: commit was called for a root whose
\* tree was walked.
C37_CursorInWipTree ==
    /\ nextUnit # Null => wipRoot # Null /\ RootOf(nextUnit) = wipRoot
    /\ curRoot # Null => \A f \in Tree(curRoot) : fibers[f].worked

\* ---------------------------------------------------------------- C38

\* Every fiber of the committed tree has been worked on, and the node of
\* every host fiber of it is attached under the container.
WalkedAndApplied ==
    \A f \in Tree(curRoot) :
        /\ fibers[f].worked
        /\ f \in HostFibers => fibers[f].dom \in AttachedIn(domKids, Container)

\* C38: a step that commits makes current the root of the pass that was in
\* progress, whose tree is walked, with the nodes of its host fibers attached;
\* also when a cleanup run by the commit calls a dispatch handle.
C38_CommitUninterrupted ==
    [][curRoot' # curRoot => curRoot' = wipRoot /\ WalkedAndApplied']_vars

\* ---------------------------------------------------------------- C39

\* The runs of the effect of hook i of fiber f, as places in the log.
RunsOf(f, i) == {j \in EffectRuns : log[j].f = f /\ log[j].i = i}

\* The fibers of the committed tree whose effect body, which calls the
\* dispatch handle, has run.
Callers == {f \in CurrentTree : fibers[f].type = "CallInEffect" /\ RunsOf(f, 2) # {}}

\* Every effect the committed pass enqueued has run once and none waits; a
\* pass is set up on a new root whose alternate is the committed root, with
\* the cursor on it; one callback is pending; and the action waits in the
\* queue of the caller's cell.
PassAfterFlush ==
    /\ \A <<f, i>> \in RenderedEffects :
           (RootOf(f) = curRoot /\ Changed(f, i)) => Cardinality(RunsOf(f, i)) = 1
    /\ pendingEffects = <<>>
    /\ wipRoot # Null /\ nextUnit = wipRoot
    /\ fibers[wipRoot].alternate = curRoot
    /\ fibers[wipRoot].props = fibers[curRoot].props
    /\ callbacks = 1 /\ scheduled
    /\ \A f \in Callers :
           LET queue == cells[fibers[f].hooks[1].cell].queue
           IN  queue # <<>> /\ queue[Len(queue)] = Inc

\* Fiber g is the render, by the pass set up on root r, of the call site of
\* fiber a.
RendersAfter(g, a, r) ==
    fibers[g].alternate = a /\ fibers[g].worked /\ RootOf(g) = r

\* C39: a commit whose flush ran an effect body that calls a dispatch handle
\* has run every effect of the flush, leaves a pass on a new root whose
\* alternate is the committed root, and leaves one callback pending; and the
\* pass that starts from such a root renders the caller with the state that
\* the queued actions give from the committed state.
C39_DispatchInFlush ==
    /\ [][(curRoot' # curRoot /\ Callers' # {}) => PassAfterFlush']_vars
    /\ [][\A a \in CurrentTree :
              (/\ fibers[a].type = "CallInEffect"
               /\ wipRoot # Null /\ nextUnit = wipRoot
               /\ fibers[wipRoot].alternate = curRoot) =>
                  \A g \in 1..Len(fibers') :
                      RendersAfter(g, a, wipRoot)' =>
                          fibers'[g].hooks[1].state =
                              Drain(fibers[a].hooks[1].state,
                                    cells[fibers[a].hooks[1].cell].queue)]_vars

\* The flush of a mount has run the effect that calls the dispatch handle and
\* then the effect queued behind it, and the pass of the call is set up.
C39_Witness ==
    /\ Callers # {}
    /\ PassAfterFlush
    /\ \E f \in Callers : \E g \in CurrentTree :
           /\ fibers[g].type = "Comp"
           /\ \E j \in RunsOf(f, 2) : \E k \in RunsOf(g, 2) : j < k
           /\ cells[fibers[f].hooks[1].cell].queue = <<Inc>>

\* ---------------------------------------------------------------- C40

\* C40: when the host has control and the cursor is not null or a
\* work-in-progress root is not committed, a callback is pending.
C40_NeverIdleWithWork ==
    (nextUnit # Null \/ wipRoot # Null) => (callbacks > 0 /\ scheduled)

\* A callback has yielded in the middle of a pass, after a component of the
\* pass called its dispatch handle, and a callback is pending.
C40_Witness ==
    /\ nextUnit # Null /\ wipRoot # Null
    /\ RootOf(nextUnit) # wipRoot
    /\ fibers[fibers[nextUnit].parent].worked
    /\ callbacks = 1

\* ---------------------------------------------------------------- C32

\* The fibers of the tree of root r whose render enqueued an effect, in the
\* order in which the walk of a commit comes to them.
Due(r) ==
    SelectSeq(PreOrder(r),
              LAMBDA f : /\ fibers[f].worked
                         /\ \E i \in 1..Len(fibers[f].hooks) :
                                fibers[f].hooks[i].kind = "effect" /\ Changed(f, i))

\* The effect bodies run since the log had n entries were those of the fibers
\* of Due(r), in that order, and none of them has run at another time.
FlushOf(r, n) ==
    LET ran == SelectSeq(SubSeq(log, n + 1, Len(log)), LAMBDA e : e.ev = "effect")
    IN  /\ [k \in 1..Len(ran) |-> ran[k].f] = Due(r)
        /\ \A k \in 1..Len(ran) :
               Cardinality({j \in EffectRuns : log[j].f = ran[k].f}) = 1

\* C32: a step that commits runs the effect of every fiber of the pass it
\* commits whose render enqueued one, once each, in the order of the commit
\* walk; between steps the global list of pending effects is empty; and the
\* deletions a commit applied are fibers of the tree that was current before
\* it, so that no list is applied by two commits.
C32_DrainedOncePerCommit ==
    /\ [][curRoot' # curRoot =>
              \A r \in {wipRoot} : \A n \in {Len(log)} : FlushOf(r, n)']_vars
    /\ [](pendingEffects = <<>>)
    /\ [](Committed =>
              \A d \in 1..Len(deletions) :
                  fibers[curRoot].alternate # Null
                      /\ deletions[d] \in Tree(fibers[curRoot].alternate))

====
